---- MODULE Spec2Model ----
(***************************************************************************)
(* Group-call signalling of CallStore (src/src/Stores/CallStore.js).       *)
(*                                                                         *)
(* JavaScript runs every handler to its next await; each action below is   *)
(* one such synchronous segment: an event handler from its entry to its    *)
(* first await (or its end), or the continuation of an async function from *)
(* one await to the next.  Objects whose identity the code compares        *)
(* (session objects, RTCPeerConnections, StreamManagers) are numbered      *)
(* cells of the functions sessions, conns and sms; 0 stands for null or    *)
(* undefined.                                                              *)
(***************************************************************************)
EXTENDS Integers, Sequences, FiniteSets, TLC

(* ------------------------------ bounds -------------------------------- *)
\* Objects the model can allocate and tasks that can be suspended at once.
MaxConns == 2
MaxSessions == 2
MaxJoins == 2
MaxNegs == 2
MaxRuns == 2
MaxSms == 2
\* Pending startConnectingSound timers, ringback cues playing at once, and
\* pending speaking timers.
MaxSoundTimers == 2
MaxCues == 2
MaxSpeakingTimers == 2
\* Width of a media source in bits (the program's sources are 32 bits wide).
SourceBits == 3

(* ---------------------------- constants ------------------------------- *)
\* throttle(this.updateGroupCallParticipants, 1000)
THROTTLE_MS == 1000
\* setTimeout(..., 150) and setTimeout(..., 1000) of the amplitude handler
SPEAKING_MS == 150
CANCEL_SPEAKING_MS == 1000
\* value > 0.2, amplitudes counted in hundredths
SPEAKING_THRESHOLD == 20
\* UserStore.getMyId(): the local user; user 2 is a remote participant.
MyId == 1

Calls == {1, 2}
Users == {MyId, 2}
ConnIds == 1..MaxConns
SessionIds == 1..MaxSessions
JoinIds == 1..MaxJoins
NegIds == 1..MaxNegs
RunIds == 1..MaxRuns
SmIds == 1..MaxSms

\* Time advances in steps of half the throttle window.
TickMs == THROTTLE_MS \div 2
\* Where amplitudes are sampled time advances in thirds of the speaking delay.
SampleMs == SPEAKING_MS \div 3

VARIABLES
    currentGroupCall,   \* this.currentGroupCall: a session id, 0 = null
    sessions,           \* the session objects ever created
    nSessions,          \* how many of them exist
    conns,              \* the RTCPeerConnections ever created
    nConns,
    sms,                \* the StreamManagers ever created
    nSms,
    items,              \* this.items: group call id -> cached group call
    participants,       \* this.participants: call id -> Map in insertion order
    joins,              \* suspended joinGroupCall invocations
    negs,               \* suspended startNegotiation invocations
    runs,               \* suspended updateGroupCallParticipants invocations
    isThrottled,        \* throttle(): window open
    savedArgs,          \* throttle(): the deferred call's argument, 0 = none
    throttleTimer,      \* throttle(): ms until the window's timer, -1 = none
    sinceBodyStart,     \* ms since updateGroupCallParticipants last started
    lastGap,            \* sinceBodyStart as it was at the most recent start
    connectionAudio,    \* this.connectionAudio: the connection of the cue, 0 = null
    nCues,              \* ringback cues playing
    soundTimers,        \* pending startConnectingSound timers, oldest first
    isSpeakingMap,      \* session -> source -> params
    speakingTimers,     \* pending params.speakingTimer callbacks, oldest first
    cancelSpeakingTimer,\* session -> source -> ms until the callback, -1 = none
    logout,             \* the suspended authorizationStateLoggingOut handler
    start,              \* the startGroupCall waiting for its alert or its hangUp
    pendingHangUps,     \* sessions whose hang-up request is not answered yet
    lastHangUp,         \* the hangUp of the last step that found its session
    lastRequest,        \* the request the last step handed to TdLibController.send
    lastEvent           \* what the last step did, for the step properties

vars == << currentGroupCall, sessions, nSessions, conns, nConns, sms, nSms,
           items, participants, joins, negs, runs, isThrottled, savedArgs,
           throttleTimer, sinceBodyStart, lastGap, connectionAudio, nCues,
           soundTimers, isSpeakingMap, speakingTimers, cancelSpeakingTimer,
           logout, start, pendingHangUps, lastHangUp, lastRequest, lastEvent >>

startVars == << start, pendingHangUps >>

soundVars == << connectionAudio, nCues, soundTimers >>

speakVars == << isSpeakingMap, speakingTimers, cancelSpeakingTimer >>

(* --------------------------- source mapping --------------------------- *)
SourceMod == 2 ^ SourceBits

\* The sources amplitudes are sampled for: one above the signed range.
SpeakSources == {SourceMod - 2}

\* toTelegramSource: the unsigned source read as a signed integer (x << 0).
toTelegramSource(x) == IF x >= SourceMod \div 2 THEN x - SourceMod ELSE x

\* fromTelegramSource: the signed token read as unsigned (x >>> 0).
fromTelegramSource(x) == IF x < 0 THEN x + SourceMod ELSE x

\* parseSdp(offer.sdp): the client info an offer carries.  An offer is the
\* pair of its ICE credentials (ufrag, pwd, fingerprint as one token) and
\* the ssrc of the local audio source.
parseSdp(offer) == [cred |-> offer.cred, source |-> offer.source]

\* The offers connection.createOffer() can produce: two offers that differ
\* in credentials and in source, one source above the signed range.
Offers == {[cred |-> 1, source |-> 1], [cred |-> 2, source |-> SourceMod - 2]}

\* getTransport(result): the transport parameters of a join response; the
\* server derives them from the request, identified here by the connection
\* whose offer the request carried.
getTransport(result) == result

(* ------------------------------ objects ------------------------------- *)
NoSession ==
    [groupCallId |-> 0, connection |-> 0, handleUpdateGroupCallParticipants |-> FALSE,
     updatingSdp |-> FALSE, streamManager |-> 0, meSignSource |-> 0,
     transport |-> 0, description |-> FALSE, joined |-> FALSE]

NoDescription == [type |-> "none", ssrcs |-> << >>]

\* An RTCPeerConnection: its iceConnectionState ("closed" once close() was
\* called), whether a negotiationneeded event is pending, the variables its
\* event handlers close over, the remote description last applied, and
\* whether it has reported "connected" before.
NoConn ==
    [ice |-> "new", negotiationNeeded |-> FALSE, groupCallId |-> 0,
     muted |-> FALSE, rejoin |-> FALSE, remote |-> NoDescription,
     wasConnected |-> FALSE]

\* A connection after close(): it fires no event and fails every operation,
\* so nothing else of it is read again.
ClosedConn == [NoConn EXCEPT !.ice = "closed"]

\* A StreamManager: whether its input stream still holds live tracks, and
\* whether the input audio track is enabled.
NoSm == [inputLive |-> FALSE, enabled |-> FALSE]

NoJoin ==
    [pc |-> "idle", groupCallId |-> 0, muted |-> FALSE, currentGroupCall |-> 0,
     streamManager |-> 0]

NoNeg ==
    [pc |-> "idle", session |-> 0, connection |-> 0, streamManager |-> 0,
     groupCallId |-> 0, isMuted |-> FALSE, rejoin |-> FALSE, sdp |-> << >>,
     activeAtStart |-> FALSE]

NoRun ==
    [pc |-> "idle", session |-> 0, connection |-> 0, groupCallId |-> 0,
     ssrcs |-> << >>]

NoEvent == [type |-> "none"]

\* params of isSpeakingMap: known is FALSE while the Map has no entry;
\* sinceFlip counts the ms since isSpeaking last changed and reports the
\* requests sent since then; telegramSource is the handler's local of that
\* name as it was when isSpeaking last changed; reported is the is_speaking
\* of the last request sent for the source, "none" before the first.
NoParams ==
    [known |-> FALSE, isSpeaking |-> FALSE, sinceFlip |-> 0, reports |-> 0,
     telegramSource |-> 0, reported |-> "none"]

NoHangUp ==
    [type |-> "none", session |-> 0, groupCallId |-> 0, discard |-> FALSE,
     rejoin |-> FALSE, inputLive |-> FALSE]

\* The handler of authorizationStateLoggingOut while it awaits hangUp, with
\* the session that was current when the update arrived.
NoLogout == [pc |-> "idle", session |-> 0]

NoRequest ==
    [type |-> "none", group_call_id |-> 0, cred |-> 0, source |-> 0,
     is_muted |-> FALSE, chat_id |-> 0]

\* startGroupCall while it shows its alert (pc "alert") or awaits hangUp (pc
\* "hangUp"): the chat to start a voice chat in, the session that was
\* current when it was called and the session its callback hung up.
NoStart == [pc |-> "idle", chatId |-> 0, session |-> 0, hungUp |-> 0]

Init ==
    /\ currentGroupCall = 0
    /\ sessions = [s \in SessionIds |-> NoSession]
    /\ nSessions = 0
    /\ conns = [c \in ConnIds |-> NoConn]
    /\ nConns = 0
    /\ sms = [m \in SmIds |-> NoSm]
    /\ nSms = 0
    /\ items = [c \in Calls |-> [known |-> FALSE, is_joined |-> FALSE]]
    /\ participants = [c \in Calls |-> << >>]
    /\ joins = [j \in JoinIds |-> NoJoin]
    /\ negs = [n \in NegIds |-> NoNeg]
    /\ runs = [r \in RunIds |-> NoRun]
    /\ isThrottled = FALSE
    /\ savedArgs = 0
    /\ throttleTimer = -1
    /\ sinceBodyStart = THROTTLE_MS
    /\ lastGap = THROTTLE_MS
    /\ connectionAudio = 0
    /\ nCues = 0
    /\ soundTimers = << >>
    /\ isSpeakingMap = [s \in SessionIds |-> [x \in SpeakSources |-> NoParams]]
    /\ speakingTimers = << >>
    /\ cancelSpeakingTimer = [s \in SessionIds |-> [x \in SpeakSources |-> -1]]
    /\ logout = NoLogout
    /\ start = NoStart
    /\ pendingHangUps = {}
    /\ lastHangUp = NoHangUp
    /\ lastRequest = NoRequest
    /\ lastEvent = NoEvent

(* ------------------------------ the store ----------------------------- *)
\* The handlers call one another synchronously; each is an operator from the
\* store (the program state it may touch) to the store it leaves behind.
\* ok is FALSE when a handler needed an object or task beyond the bounds.
Cur ==
    [currentGroupCall |-> currentGroupCall, sessions |-> sessions,
     nSessions |-> nSessions, conns |-> conns, nConns |-> nConns, sms |-> sms,
     nSms |-> nSms, items |-> items, participants |-> participants,
     runs |-> runs,
     isThrottled |-> isThrottled, savedArgs |-> savedArgs,
     throttleTimer |-> throttleTimer, sinceBodyStart |-> sinceBodyStart,
     lastGap |-> lastGap, connectionAudio |-> connectionAudio, nCues |-> nCues,
     soundTimers |-> soundTimers, logout |-> logout, start |-> start,
     pendingHangUps |-> pendingHangUps, lastHangUp |-> NoHangUp,
     lastRequest |-> NoRequest, ok |-> TRUE]

\* The sessions with a hang-up request in flight after a step: hangUp sends
\* a discard, a leave or a null-payload join unless it was called to rejoin.
PendingAfter(st) ==
    IF st.lastHangUp.type = "hangUp" /\ ~st.lastHangUp.rejoin
    THEN st.pendingHangUps \cup {st.lastHangUp.session}
    ELSE st.pendingHangUps

Commit(st) ==
    /\ st.ok
    /\ currentGroupCall' = st.currentGroupCall
    /\ sessions' = st.sessions
    /\ nSessions' = st.nSessions
    /\ conns' = st.conns
    /\ nConns' = st.nConns
    /\ sms' = st.sms
    /\ nSms' = st.nSms
    /\ items' = st.items
    /\ participants' = st.participants
    /\ runs' = st.runs
    /\ isThrottled' = st.isThrottled
    /\ savedArgs' = st.savedArgs
    /\ throttleTimer' = st.throttleTimer
    /\ sinceBodyStart' = st.sinceBodyStart
    /\ lastGap' = st.lastGap
    /\ connectionAudio' = st.connectionAudio
    /\ nCues' = st.nCues
    /\ soundTimers' = st.soundTimers
    /\ logout' = st.logout
    /\ start' = st.start
    /\ pendingHangUps' = PendingAfter(st)
    /\ lastHangUp' = st.lastHangUp
    /\ lastRequest' = st.lastRequest
    /\ UNCHANGED speakVars

Closed(cs, c) == cs[c].ice = "closed"

\* TdLibController.send(request)
send(st, request) == [st EXCEPT !.lastRequest = request]

\* closeConnectionAndStream(connection, streamManager); 0 = null
closeConnectionAndStream(st, connection, streamManager) ==
    LET st1 == IF connection # 0
               THEN [st EXCEPT !.conns[connection] = ClosedConn]
               ELSE st
    IN  IF streamManager # 0
        THEN [st1 EXCEPT !.sms[streamManager].inputLive = FALSE]
        ELSE st1

\* setCurrentGroupCall(call), with onClientUpdate's clientUpdateGroupCall
setCurrentGroupCall(st, call) == [st EXCEPT !.currentGroupCall = call]

(* ------------------------------- sounds ------------------------------- *)
\* stopConnectingSound(connection); 0 = null
stopConnectingSound(st, connection) ==
    IF st.connectionAudio = 0 THEN st
    ELSE IF connection # 0 /\ st.connectionAudio # connection THEN st
    ELSE [st EXCEPT !.connectionAudio = 0, !.nCues = st.nCues - 1]

\* startConnectingSound(connection): the callback is left to the timer.
startConnectingSound(st, connection) ==
    LET st1 == stopConnectingSound(st, 0) IN
    IF Len(st1.soundTimers) >= MaxSoundTimers THEN [st1 EXCEPT !.ok = FALSE]
    ELSE [st1 EXCEPT !.soundTimers = Append(st1.soundTimers, connection)]

\* The callback startConnectingSound left to the timer: a looped cue starts
\* for the connection when it is still the current session's and has not
\* got past "checking"; the Audio object replaces this.connectionAudio.
connectingSoundTimeout(st, connection) ==
    LET cgc == st.currentGroupCall
        st1 == [st EXCEPT !.soundTimers = Tail(st.soundTimers)]
    IN  IF /\ cgc # 0
           /\ st.sessions[cgc].connection = connection
           /\ st.conns[connection].ice \in {"checking", "new"}
        THEN IF st.nCues >= MaxCues THEN [st EXCEPT !.ok = FALSE]
             ELSE [st1 EXCEPT !.connectionAudio = connection, !.nCues = st.nCues + 1]
        ELSE st1

(* ------------------------- hang-up and join --------------------------- *)
\* A variant of hangUp that does not consult the cached group call and
\* leaves whenever no discard was asked for.
hangUpIgnoringIsJoined(st, groupCallId, discard, rejoin) ==
    LET cgc == st.currentGroupCall IN
    IF cgc = 0 THEN st
    ELSE IF st.sessions[cgc].groupCallId # groupCallId THEN st
    ELSE
      LET connection == st.sessions[cgc].connection
          streamManager == st.sessions[cgc].streamManager
          st0 == [st EXCEPT !.lastHangUp =
                                [type |-> "hangUp", session |-> cgc,
                                 groupCallId |-> groupCallId, discard |-> discard,
                                 rejoin |-> rejoin,
                                 inputLive |-> st.sms[streamManager].inputLive]]
          st1 == IF ~rejoin
                 THEN stopConnectingSound(setCurrentGroupCall(st0, 0), 0)
                 ELSE st0
          st2 == closeConnectionAndStream(st1, connection,
                                          IF rejoin THEN 0 ELSE streamManager)
          request == [NoRequest EXCEPT !.group_call_id = groupCallId]
      IN  IF rejoin THEN st2
          ELSE IF discard THEN send(st2, [request EXCEPT !.type = "discardGroupCall"])
          ELSE send(st2, [request EXCEPT !.type = "leaveGroupCall"])

\* A variant of hangUp that hangs the current session up whatever call id
\* it is given.
hangUpAnyCall(st, groupCallId, discard, rejoin) ==
    LET cgc == st.currentGroupCall IN
    IF cgc = 0 THEN st
    ELSE
      LET connection == st.sessions[cgc].connection
          streamManager == st.sessions[cgc].streamManager
          st0 == [st EXCEPT !.lastHangUp =
                                [type |-> "hangUp", session |-> cgc,
                                 groupCallId |-> groupCallId, discard |-> discard,
                                 rejoin |-> rejoin,
                                 inputLive |-> st.sms[streamManager].inputLive]]
          st1 == IF ~rejoin
                 THEN stopConnectingSound(setCurrentGroupCall(st0, 0), 0)
                 ELSE st0
          st2 == closeConnectionAndStream(st1, connection,
                                          IF rejoin THEN 0 ELSE streamManager)
          request == [NoRequest EXCEPT !.group_call_id = groupCallId]
      IN  IF rejoin THEN st2
          ELSE IF discard THEN send(st2, [request EXCEPT !.type = "discardGroupCall"])
          ELSE IF st.items[groupCallId].known /\ st.items[groupCallId].is_joined
               THEN send(st2, [request EXCEPT !.type = "leaveGroupCall"])
          ELSE send(st2, [request EXCEPT !.type = "joinGroupCallNull"])

\* hangUp(groupCallId, discard, rejoin), up to and including the request it
\* sends; nothing follows its await.
hangUp(st, groupCallId, discard, rejoin) ==
    LET cgc == st.currentGroupCall IN
    IF cgc = 0 THEN st
    ELSE IF st.sessions[cgc].groupCallId # groupCallId THEN st
    ELSE
      LET connection == st.sessions[cgc].connection
          streamManager == st.sessions[cgc].streamManager
          st0 == [st EXCEPT !.lastHangUp =
                                [type |-> "hangUp", session |-> cgc,
                                 groupCallId |-> groupCallId, discard |-> discard,
                                 rejoin |-> rejoin,
                                 inputLive |-> st.sms[streamManager].inputLive]]
          st1 == IF ~rejoin
                 THEN stopConnectingSound(setCurrentGroupCall(st0, 0), 0)
                 ELSE st0
          st2 == closeConnectionAndStream(st1, connection,
                                          IF rejoin THEN 0 ELSE streamManager)
          request == [NoRequest EXCEPT !.group_call_id = groupCallId]
      IN  IF rejoin THEN st2
          ELSE IF discard THEN send(st2, [request EXCEPT !.type = "discardGroupCall"])
          ELSE IF st.items[groupCallId].known /\ st.items[groupCallId].is_joined
               THEN send(st2, [request EXCEPT !.type = "leaveGroupCall"])
          ELSE send(st2, [request EXCEPT !.type = "joinGroupCallNull"])

\* A variant of joinGroupCallInternal whose rejoin replaces the connection
\* and leaves the session's flags as they were.
joinGroupCallInternalKeepingFlags(st, groupCallId, streamManager, muted, rejoin) ==
    IF st.nConns >= MaxConns THEN [st EXCEPT !.ok = FALSE]
    ELSE
      LET connection == st.nConns + 1
          cgc == st.currentGroupCall
          st1 == [st EXCEPT !.nConns = connection,
                            !.conns[connection] =
                                [NoConn EXCEPT !.negotiationNeeded = st.sms[streamManager].inputLive,
                                               !.groupCallId = groupCallId,
                                               !.muted = muted,
                                               !.rejoin = rejoin]]
      IN  IF cgc # 0 /\ rejoin
          THEN [st1 EXCEPT !.sessions[cgc].connection = connection]
          ELSE IF st.nSessions >= MaxSessions THEN [st EXCEPT !.ok = FALSE]
          ELSE
            LET s == st.nSessions + 1 IN
            setCurrentGroupCall(
                [st1 EXCEPT !.nSessions = s,
                            !.sessions[s] = [NoSession EXCEPT !.groupCallId = groupCallId,
                                                              !.connection = connection,
                                                              !.streamManager = streamManager]],
                s)

\* joinGroupCallInternal(chatId, groupCallId, streamManager, muted, rejoin):
\* a new connection with the input tracks added (which makes the transport
\* fire negotiationneeded), stored on the current session when rejoining and
\* on a new session object otherwise.
joinGroupCallInternal(st, groupCallId, streamManager, muted, rejoin) ==
    IF st.nConns >= MaxConns THEN [st EXCEPT !.ok = FALSE]
    ELSE
      LET connection == st.nConns + 1
          cgc == st.currentGroupCall
          st1 == [st EXCEPT !.nConns = connection,
                            !.conns[connection] =
                                [NoConn EXCEPT !.negotiationNeeded = st.sms[streamManager].inputLive,
                                               !.groupCallId = groupCallId,
                                               !.muted = muted,
                                               !.rejoin = rejoin]]
      IN  IF cgc # 0 /\ rejoin
          THEN [st1 EXCEPT !.sessions[cgc].connection = connection,
                           !.sessions[cgc].handleUpdateGroupCallParticipants = FALSE,
                           !.sessions[cgc].updatingSdp = FALSE]
          ELSE IF st.nSessions >= MaxSessions THEN [st EXCEPT !.ok = FALSE]
          ELSE
            LET s == st.nSessions + 1 IN
            setCurrentGroupCall(
                [st1 EXCEPT !.nSessions = s,
                            !.sessions[s] = [NoSession EXCEPT !.groupCallId = groupCallId,
                                                              !.connection = connection,
                                                              !.streamManager = streamManager]],
                s)

\* isMuted()
isMuted(st) ==
    LET cgc == st.currentGroupCall IN
    IF cgc = 0 THEN TRUE
    ELSE IF st.sessions[cgc].streamManager = 0 THEN TRUE
    ELSE IF st.sms[st.sessions[cgc].streamManager].inputLive
         THEN ~st.sms[st.sessions[cgc].streamManager].enabled
    ELSE TRUE

\* A variant of the rejoin that joins as a first join does, with a session
\* object of its own.
rejoinGroupCallAsFirstJoin(st) ==
    LET cgc == st.currentGroupCall IN
    IF cgc = 0 THEN st
    ELSE
      LET groupCallId == st.sessions[cgc].groupCallId
          st1 == hangUp(st, groupCallId, FALSE, TRUE)
          streamManager == st1.sessions[cgc].streamManager
      IN  joinGroupCallInternal(st1, groupCallId, streamManager, isMuted(st1), FALSE)

\* rejoinGroupCall(): hangUp(groupCallId, false, true), then
\* joinGroupCall(chatId, groupCallId, this.isMuted(), true), which with
\* rejoin set reaches joinGroupCallInternal without an await.
rejoinGroupCall(st) ==
    LET cgc == st.currentGroupCall IN
    IF cgc = 0 THEN st
    ELSE
      LET groupCallId == st.sessions[cgc].groupCallId
          st1 == hangUp(st, groupCallId, FALSE, TRUE)
          streamManager == st1.sessions[cgc].streamManager
      IN  joinGroupCallInternal(st1, groupCallId, streamManager, isMuted(st1), TRUE)

(* ---------------------- updateGroupCallParticipants ------------------- *)
FreeRuns(st) == {r \in RunIds : st.runs[r].pc = "idle"}

\* A variant of the source list that takes the active records as they are
\* and synthesizes nobody.
SsrcsWithoutMe(st, groupCallId, meSignSource) ==
    LET list == SelectSeq(st.participants[groupCallId], LAMBDA x : x.order # "0")
    IN  [i \in 1..Len(list) |->
            [ssrc |-> fromTelegramSource(list[i].source),
             isMain |-> list[i].source = meSignSource,
             userId |-> list[i].user_id]]

\* The active roster of a call as the source list of a renegotiation: the
\* participants whose order is not "0" in the Map's insertion order, the
\* local user synthesized in front when absent from them.
Ssrcs(st, groupCallId, meSignSource) ==
    LET active == SelectSeq(st.participants[groupCallId], LAMBDA x : x.order # "0")
        hasMe == \E i \in 1..Len(active) : active[i].user_id = MyId
        list == IF hasMe THEN active
                ELSE << [user_id |-> MyId, order |-> "me", source |-> meSignSource] >> \o active
    IN  [i \in 1..Len(list) |->
            [ssrc |-> fromTelegramSource(list[i].source),
             isMain |-> list[i].source = meSignSource,
             userId |-> list[i].user_id]]

\* The body of updateGroupCallParticipants(groupCallId) from its entry to
\* its first await, connection.setRemoteDescription(offer).  Without a Map
\* for the call the snapshot throws and the finally clause clears the flag
\* that was just set.
updateGroupCallParticipantsBody(st, groupCallId) ==
    LET cgc == st.currentGroupCall IN
    IF cgc = 0 THEN st
    ELSE IF st.sessions[cgc].groupCallId # groupCallId THEN st
    ELSE IF ~st.sessions[cgc].handleUpdateGroupCallParticipants THEN st
    ELSE IF st.sessions[cgc].transport = 0 THEN st
    ELSE IF st.sessions[cgc].meSignSource = 0 THEN st
    ELSE IF ~st.sessions[cgc].description THEN st
    ELSE IF st.sessions[cgc].updatingSdp THEN st
    ELSE IF st.participants[groupCallId] = << >> THEN st
    ELSE IF FreeRuns(st) = {} THEN [st EXCEPT !.ok = FALSE]
    ELSE
      LET r == CHOOSE x \in FreeRuns(st) : \A y \in FreeRuns(st) : x <= y IN
      [st EXCEPT !.sessions[cgc].updatingSdp = TRUE,
                 !.runs[r] = [pc |-> "setRemoteDescription",
                              session |-> cgc,
                              connection |-> st.sessions[cgc].connection,
                              groupCallId |-> groupCallId,
                              ssrcs |-> Ssrcs(st, groupCallId, st.sessions[cgc].meSignSource)]]

\* An invocation of the function throttle() wrapped: it counts as a start of
\* the body whatever the body then does.
updateGroupCallParticipantsStart(st, groupCallId) ==
    updateGroupCallParticipantsBody(
        [st EXCEPT !.lastGap = st.sinceBodyStart, !.sinceBodyStart = 0],
        groupCallId)

\* this.updateGroupCallParticipants(groupCallId): the wrapper throttle()
\* returned.  Inside the window it keeps the argument of the latest call;
\* otherwise it runs the body, opens the window and sets the timer.
updateGroupCallParticipants(st, groupCallId) ==
    IF st.isThrottled
    THEN [st EXCEPT !.savedArgs = groupCallId]
    ELSE [updateGroupCallParticipantsStart(st, groupCallId)
              EXCEPT !.isThrottled = TRUE, !.throttleTimer = THROTTLE_MS]

\* The timer throttle() set: it closes the window and replays the deferred
\* call, if any, through the wrapper.
throttleTimeout(st) ==
    LET st1 == [st EXCEPT !.isThrottled = FALSE, !.throttleTimer = -1] IN
    IF st.savedArgs # 0
    THEN [updateGroupCallParticipants(st1, st.savedArgs) EXCEPT !.savedArgs = 0]
    ELSE st1

(* ------------------------------ joinGroupCall ------------------------- *)
FreeJoins == {j \in JoinIds : joins[j].pc = "idle"}

\* joinGroupCall(chatId, groupCallId, muted) called by the user (rejoin is
\* false): it asks for the group call when it is not cached, reads
\* this.currentGroupCall and suspends in getStream().
JoinGroupCall(groupCallId, muted) ==
    /\ FreeJoins # {}
    /\ LET j == CHOOSE x \in FreeJoins : \A y \in FreeJoins : x <= y IN
       joins' = [joins EXCEPT ![j] = [pc |-> "getStream",
                                      groupCallId |-> groupCallId,
                                      muted |-> muted,
                                      currentGroupCall |-> currentGroupCall,
                                      streamManager |-> 0]]
    /\ lastEvent' = NoEvent
    /\ UNCHANGED << currentGroupCall, sessions, nSessions, conns, nConns, sms,
                    nSms, items, participants, negs, runs, isThrottled,
                    savedArgs, throttleTimer, sinceBodyStart, lastGap,
                    soundVars, speakVars, logout, startVars >>
    /\ lastHangUp' = NoHangUp
    /\ lastRequest' = IF items[groupCallId].known THEN NoRequest
                      ELSE [NoRequest EXCEPT !.type = "getGroupCall",
                                             !.group_call_id = groupCallId]

\* A variant of the failed capture that shows the alert and goes on to
\* joinGroupCallInternal with a StreamManager that holds no track.
JoinGetStreamFailedGoingOn(j) ==
    /\ joins[j].pc = "getStream"
    /\ nSms < MaxSms
    /\ joins' = [joins EXCEPT ![j] = NoJoin]
    /\ lastEvent' = [type |-> "alert", text |-> "VoipNeedMicPermission"]
    /\ Commit(joinGroupCallInternal([Cur EXCEPT !.nSms = nSms + 1],
                                    joins[j].groupCallId, nSms + 1, joins[j].muted, FALSE))
    /\ UNCHANGED negs

\* getStream() rejected: the permission alert is shown and the join returns.
JoinGetStreamFailed(j) ==
    /\ joins[j].pc = "getStream"
    /\ joins' = [joins EXCEPT ![j] = NoJoin]
    /\ lastEvent' = [type |-> "alert", text |-> "VoipNeedMicPermission"]
    /\ UNCHANGED << currentGroupCall, sessions, nSessions, conns, nConns, sms,
                    nSms, items, participants, negs, runs, isThrottled,
                    savedArgs, throttleTimer, sinceBodyStart, lastGap,
                    soundVars, speakVars, logout, startVars >>
    /\ lastHangUp' = NoHangUp
    /\ lastRequest' = NoRequest

\* getStream() resolved: a StreamManager is built around the capture; then
\* the join either asks the user (a session existed when it started) or goes
\* on to joinGroupCallInternal.
JoinGetStream(j) ==
    /\ joins[j].pc = "getStream"
    /\ nSms < MaxSms
    /\ LET streamManager == nSms + 1
           st == [Cur EXCEPT !.nSms = streamManager,
                             !.sms[streamManager] = [inputLive |-> TRUE,
                                                     enabled |-> ~joins[j].muted]]
       IN  IF joins[j].currentGroupCall # 0
           THEN /\ joins' = [joins EXCEPT ![j].pc = "alert",
                                          ![j].streamManager = streamManager]
                /\ lastEvent' = [type |-> "alert", text |-> "VoipOngoingChatAlert"]
                /\ Commit(st)
           ELSE /\ joins' = [joins EXCEPT ![j] = NoJoin]
                /\ lastEvent' = NoEvent
                /\ Commit(joinGroupCallInternal(st, joins[j].groupCallId, streamManager,
                                                joins[j].muted, FALSE))
    /\ UNCHANGED negs

\* The user answers the ongoing-call alert: onResult(result).
JoinAlertResult(j, result) ==
    /\ joins[j].pc = "alert"
    /\ joins' = [joins EXCEPT ![j] = NoJoin]
    /\ IF result
       THEN /\ lastEvent' = NoEvent
            /\ LET st == IF currentGroupCall # 0
                         THEN hangUp(Cur, sessions[currentGroupCall].groupCallId, FALSE, FALSE)
                         ELSE Cur
               IN  Commit(joinGroupCallInternal(st, joins[j].groupCallId,
                                                joins[j].streamManager, joins[j].muted, FALSE))
       ELSE /\ lastEvent' = NoEvent
            /\ Commit(Cur)
    /\ UNCHANGED negs

(* ------------------------------ user, server -------------------------- *)
\* leaveGroupCall(chatId, groupCallId) by a user without management rights:
\* hangUp(groupCallId).
LeaveGroupCall(groupCallId) ==
    /\ currentGroupCall # 0
    /\ Commit(hangUp(Cur, groupCallId, FALSE, FALSE))
    /\ lastEvent' = NoEvent
    /\ UNCHANGED << joins, negs >>

\* leaveGroupCall(chatId, groupCallId, true) by a user who manages voice
\* chats: hangUp(groupCallId, true).
LeaveGroupCallForceDiscard(groupCallId) ==
    /\ currentGroupCall # 0
    /\ Commit(hangUp(Cur, groupCallId, TRUE, FALSE))
    /\ lastEvent' = NoEvent
    /\ UNCHANGED << joins, negs >>

\* hangUp(groupCallId, discard) called by itself, with or without a session.
HangUp(groupCallId, discard) ==
    /\ Commit(hangUp(Cur, groupCallId, discard, FALSE))
    /\ lastEvent' = [type |-> "hangUp", groupCallId |-> groupCallId, discard |-> discard]
    /\ UNCHANGED << joins, negs >>

\* The answer to a hang-up request that no startGroupCall is waiting for.
HangUpAnswered(session) ==
    /\ session \in pendingHangUps
    /\ ~(start.pc = "hangUp" /\ start.hungUp = session)
    /\ Commit([Cur EXCEPT !.pendingHangUps = @ \ {session}])
    /\ lastEvent' = NoEvent
    /\ UNCHANGED << joins, negs >>

\* startGroupCallInternal(chatId): the createVoiceChat request.
startGroupCallInternal(st, chatId) ==
    send(st, [NoRequest EXCEPT !.type = "createVoiceChat", !.chat_id = chatId])

\* onResult of startGroupCall's alert: nothing when the user declines;
\* otherwise hangUp of the session that is current now, awaited, before
\* startGroupCallInternal, which is called at once when no session is
\* current.
startAlertResult(st, result) ==
    LET cgc == st.currentGroupCall
        st1 == [st EXCEPT !.start = NoStart]
    IN  IF ~result THEN st1
        ELSE IF cgc # 0
        THEN [hangUp(st, st.sessions[cgc].groupCallId, FALSE, FALSE)
                 EXCEPT !.start.pc = "hangUp", !.start.hungUp = cgc]
        ELSE startGroupCallInternal(st1, st.start.chatId)

\* startGroupCall(chatId): with a session current the alert is shown and
\* the method returns; with none startGroupCallInternal is called.
StartGroupCall(chatId) ==
    /\ start.pc = "idle"
    /\ LET cgc == currentGroupCall
       IN  /\ IF cgc # 0
              THEN Commit([Cur EXCEPT !.start = [pc |-> "alert", chatId |-> chatId,
                                                 session |-> cgc, hungUp |-> 0]])
              ELSE Commit(startGroupCallInternal(Cur, chatId))
           /\ lastEvent' = [type |-> "startGroupCall", session |-> cgc,
                            result |-> FALSE]
    /\ UNCHANGED << joins, negs >>

\* The user answers the alert of startGroupCall.
StartAlertResult(result) ==
    /\ start.pc = "alert"
    /\ Commit(startAlertResult(Cur, result))
    /\ lastEvent' = [type |-> "startAlertResult", session |-> start.session,
                     result |-> result]
    /\ UNCHANGED << joins, negs >>

\* hangUp returned to the alert callback of startGroupCall: its request was
\* answered, and startGroupCallInternal is called.
StartHangUpReturned ==
    /\ start.pc = "hangUp"
    /\ Commit(startGroupCallInternal(
                  [Cur EXCEPT !.pendingHangUps = @ \ {start.hungUp},
                              !.start = NoStart],
                  start.chatId))
    /\ lastEvent' = [type |-> "startHangUpReturned", session |-> start.session,
                     result |-> TRUE]
    /\ UNCHANGED << joins, negs >>

\* A variant of the updateGroupCall handler that reads the cached call after
\* it has stored the new one.
UpdateGroupCallReadingAfterSet(id, need_rejoin, is_joined) ==
    LET st == [Cur EXCEPT !.items[id] = [known |-> TRUE, is_joined |-> is_joined]]
        prevGroupCall == st.items[id]
        cgc == currentGroupCall
    IN  /\ IF cgc # 0 /\ sessions[cgc].groupCallId = id
           THEN IF need_rejoin THEN Commit(rejoinGroupCall(st))
                ELSE IF prevGroupCall.known /\ prevGroupCall.is_joined /\ ~is_joined
                     THEN Commit(hangUp(st, id, FALSE, FALSE))
                ELSE Commit(st)
           ELSE Commit(st)
        /\ lastEvent' = [type |-> "updateGroupCall", id |-> id,
                         need_rejoin |-> need_rejoin, is_joined |-> is_joined]
        /\ UNCHANGED << joins, negs >>

\* onUpdate, updateGroupCall
UpdateGroupCall(id, need_rejoin, is_joined) ==
    LET prevGroupCall == items[id]
        st == [Cur EXCEPT !.items[id] = [known |-> TRUE, is_joined |-> is_joined]]
        cgc == currentGroupCall
    IN  /\ IF cgc # 0 /\ sessions[cgc].groupCallId = id
           THEN IF need_rejoin THEN Commit(rejoinGroupCall(st))
                ELSE IF prevGroupCall.known /\ prevGroupCall.is_joined /\ ~is_joined
                     THEN Commit(hangUp(st, id, FALSE, FALSE))
                ELSE Commit(st)
           ELSE Commit(st)
        /\ lastEvent' = [type |-> "updateGroupCall", id |-> id,
                         need_rejoin |-> need_rejoin, is_joined |-> is_joined]
        /\ UNCHANGED << joins, negs >>

\* reset(): no session, and new empty Maps for items and participants.
reset(st) ==
    [st EXCEPT !.currentGroupCall = 0,
               !.items = [c \in Calls |-> [known |-> FALSE, is_joined |-> FALSE]],
               !.participants = [c \in Calls |-> << >>]]

\* What the handler of authorizationStateLoggingOut did for the session
\* that was current when the update arrived.
LoggedOut(session) ==
    [type |-> "loggedOut", session |-> session,
     connection |-> IF session = 0 THEN 0 ELSE sessions[session].connection,
     streamManager |-> IF session = 0 THEN 0 ELSE sessions[session].streamManager]

\* onUpdate, updateAuthorizationState with authorizationStateLoggingOut:
\* when the current session's call is cached with is_joined the handler
\* awaits hangUp(groupCallId, false, false); otherwise it goes straight to
\* reset().
UpdateAuthorizationStateLoggingOut ==
    /\ logout.pc = "idle"
    /\ LET cgc == currentGroupCall
           groupCallId == sessions[cgc].groupCallId
       IN  IF cgc # 0 /\ items[groupCallId].known /\ items[groupCallId].is_joined
           THEN /\ Commit([hangUp(Cur, groupCallId, FALSE, FALSE)
                              EXCEPT !.logout = [pc |-> "hangUp", session |-> cgc]])
                /\ lastEvent' = NoEvent
           ELSE /\ Commit(reset(Cur))
                /\ lastEvent' = LoggedOut(cgc)
    /\ UNCHANGED << joins, negs >>

\* hangUp returned to the handler of authorizationStateLoggingOut: reset().
LoggingOutReset ==
    /\ logout.pc = "hangUp"
    /\ Commit([reset(Cur) EXCEPT !.logout = NoLogout])
    /\ lastEvent' = LoggedOut(logout.session)
    /\ UNCHANGED << joins, negs >>

\* The record of user_id in a call's Map, or the empty sequence.
Lookup(map, user_id) == SelectSeq(map, LAMBDA x : x.user_id = user_id)

\* Map.set: an existing key keeps its place, a new key goes last.
MapSet(map, participant) ==
    IF Lookup(map, participant.user_id) = << >>
    THEN Append(map, participant)
    ELSE [i \in 1..Len(map) |->
             IF map[i].user_id = participant.user_id THEN participant ELSE map[i]]

\* A variant of the condition that treats every change of order as a reason
\* to renegotiate.
needsRenegotiationOnAnyChange(prev, participant) ==
    \/ prev = << >>
    \/ prev[1].order # participant.order

\* onUpdate, updateGroupCallParticipant: no information before || join
\* group call || leave group call.  prev is the previous record as a
\* sequence of at most one element.
needsRenegotiation(prev, participant) ==
    \/ prev = << >>
    \/ prev[1].order = "0" /\ participant.order # "0"
    \/ prev[1].order # "0" /\ participant.order = "0"

\* A variant of the forced mute that follows the flags in both directions.
muteInputTrackFollowingFlags(st, group_call_id, user_id, muted) ==
    LET cgc == st.currentGroupCall IN
    IF /\ user_id = MyId /\ cgc # 0
       /\ group_call_id = st.sessions[cgc].groupCallId
       /\ st.sms[st.sessions[cgc].streamManager].inputLive
    THEN [st EXCEPT !.sms[st.sessions[cgc].streamManager].enabled = ~muted]
    ELSE st

\* onUpdate, updateGroupCallParticipant: mute stream on
\* updateGroupCallParticipant, unmute can be done only on UI user action.
muteInputTrack(st, group_call_id, user_id, muted) ==
    LET cgc == st.currentGroupCall IN
    IF /\ user_id = MyId /\ muted /\ cgc # 0
       /\ group_call_id = st.sessions[cgc].groupCallId
       /\ st.sms[st.sessions[cgc].streamManager].inputLive
    THEN [st EXCEPT !.sms[st.sessions[cgc].streamManager].enabled = FALSE]
    ELSE st

\* onUpdate, updateGroupCallParticipant
UpdateGroupCallParticipant(group_call_id, user_id, order, source, is_muted_for_all_users, is_muted_for_current_user) ==
    LET participant == [user_id |-> user_id, order |-> order, source |-> source]
        muted == is_muted_for_all_users \/ is_muted_for_current_user
        prev == Lookup(participants[group_call_id], user_id)
        prevParticipant == prev # << >>
        st == [Cur EXCEPT !.participants[group_call_id] = MapSet(@, participant)]
        cgc == currentGroupCall
        st1 == muteInputTrack(st, group_call_id, user_id, muted)
        request == needsRenegotiation(prev, participant)
    IN  /\ IF request
           THEN Commit(updateGroupCallParticipants(st1, group_call_id))
           ELSE Commit(st1)
        /\ lastEvent' = [type |-> "updateGroupCallParticipant",
                         group_call_id |-> group_call_id,
                         user_id |-> user_id,
                         prevOrder |-> IF prevParticipant THEN prev[1].order ELSE "none",
                         order |-> order,
                         muted |-> muted,
                         wasMuted |-> isMuted(Cur),
                         requested |-> request]
        /\ UNCHANGED << joins, negs >>

(* ------------------------------ transport ----------------------------- *)
\* The outcomes of an operation on a connection: it fails on a closed one.
Outcomes(c) == IF Closed(conns, c) THEN {FALSE} ELSE {TRUE, FALSE}

\* On a connection that is open, createOffer and setLocalDescription of
\* startNegotiation succeed.
OfferOutcomes(c) == IF Closed(conns, c) THEN {FALSE} ELSE {TRUE}

\* The connectivity states a connection can move to.  It leaves "new" only
\* once a remote description gave it candidates to check.
IceNext(c) ==
    CASE conns[c].ice = "new" ->
             IF conns[c].remote.type # "none" THEN {"checking"} ELSE {}
      [] conns[c].ice = "checking" -> {"connected", "failed"}
      [] conns[c].ice = "connected" -> {"disconnected", "failed"}
      [] conns[c].ice = "disconnected" -> {"connected", "failed"}
      [] OTHER -> {}

\* A variant of the reaction to a failed transport that discards the call.
iceFailedDiscarding(st, groupCallId) ==
    hangUp(st, groupCallId, TRUE, FALSE)

\* oniceconnectionstatechange, case 'failed' and case 'closed':
\* this.hangUp(groupCallId)
iceFailed(st, groupCallId) ==
    hangUp(st, groupCallId, FALSE, FALSE)

\* oniceconnectionstatechange, case 'connected': whether the joined cue is
\* played, sounds/group_call_start.mp3.
playsJoined(c) ==
    /\ currentGroupCall # 0
    /\ sessions[currentGroupCall].connection = c
    /\ ~sessions[currentGroupCall].joined

\* connection.oniceconnectionstatechange
IceConnectionStateChange(c, state) ==
    /\ c <= nConns
    /\ state \in IceNext(c)
    /\ LET st0 == [Cur EXCEPT !.conns[c].ice = state,
                              !.conns[c].wasConnected = @ \/ state = "connected"]
           st == IF state # "checking" THEN stopConnectingSound(st0, c) ELSE st0
           cgc == currentGroupCall
       IN  CASE state \in {"failed", "closed"} -> Commit(iceFailed(st, conns[c].groupCallId))
             [] state = "connected" ->
                  IF playsJoined(c)
                  THEN Commit([st EXCEPT !.sessions[cgc].joined = TRUE])
                  ELSE Commit(st)
             [] OTHER -> Commit(st)
    /\ lastEvent' = [type |-> "ice", connection |-> c, state |-> state,
                     current |-> currentGroupCall # 0 /\ sessions[currentGroupCall].connection = c,
                     session |-> currentGroupCall,
                     first |-> ~conns[c].wasConnected,
                     played |-> state = "connected" /\ playsJoined(c)]
    /\ UNCHANGED << joins, negs >>

(* ---------------------------- startNegotiation ------------------------ *)
FreeNegs == {n \in NegIds : negs[n].pc = "idle"}

\* Whether the session a startNegotiation works for has been superseded:
\* it is no longer the current one, or its connection was replaced.
Superseded(session, connection) ==
    currentGroupCall # session \/ sessions[session].connection # connection

\* connection.onnegotiationneeded: startNegotiation(muted, rejoin) up to its
\* first createOffer.  The transport fires the event after addTrack, and by
\* itself while the connection is connected.
NegotiationNeeded(c) ==
    /\ c <= nConns
    /\ ~Closed(conns, c)
    /\ conns[c].negotiationNeeded \/ conns[c].ice = "connected"
    /\ conns' = [conns EXCEPT ![c].negotiationNeeded = FALSE]
    /\ IF currentGroupCall = 0
       THEN negs' = negs
       ELSE /\ FreeNegs # {}
            /\ LET n == CHOOSE x \in FreeNegs : \A y \in FreeNegs : x <= y
                   s == sessions[currentGroupCall]
               IN  negs' = [negs EXCEPT ![n] =
                       [NoNeg EXCEPT !.pc = "createOffer1",
                                     !.session = currentGroupCall,
                                     !.connection = s.connection,
                                     !.streamManager = s.streamManager,
                                     !.groupCallId = s.groupCallId,
                                     !.isMuted = conns[c].muted,
                                     !.rejoin = conns[c].rejoin,
                                     !.activeAtStart = conns[s.connection].ice \notin {"new", "closed"}]]
    /\ lastEvent' = NoEvent
    /\ UNCHANGED << currentGroupCall, sessions, nSessions, nConns, sms, nSms,
                    items, participants, joins, runs, isThrottled, savedArgs,
                    throttleTimer, sinceBodyStart, lastGap,
                    soundVars, speakVars, logout, startVars >>
    /\ lastHangUp' = NoHangUp
    /\ lastRequest' = NoRequest

NegUnchanged ==
    /\ lastRequest' = NoRequest
    /\ lastHangUp' = NoHangUp
    /\ UNCHANGED << currentGroupCall, sessions, nSessions, conns, nConns, sms,
                    nSms, items, participants, joins, runs, isThrottled,
                    savedArgs, throttleTimer, sinceBodyStart, lastGap,
                    soundVars, speakVars, logout, startVars >>

\* createOffer resolved (first cycle): setLocalDescription(offer).
NegCreateOffer1(n, ok) ==
    /\ negs[n].pc = "createOffer1"
    /\ ok \in OfferOutcomes(negs[n].connection)
    /\ negs' = IF ok THEN [negs EXCEPT ![n].pc = "setLocalDescription1"]
               ELSE [negs EXCEPT ![n] = NoNeg]
    /\ lastEvent' = NoEvent
    /\ NegUnchanged

\* setLocalDescription resolved (first cycle): the client info is parsed
\* from the offer and createOffer is called again.
NegSetLocalDescription1(n, ok) ==
    /\ negs[n].pc = "setLocalDescription1"
    /\ ok \in OfferOutcomes(negs[n].connection)
    /\ negs' = IF ok THEN [negs EXCEPT ![n].pc = "createOffer2"]
               ELSE [negs EXCEPT ![n] = NoNeg]
    /\ lastEvent' = NoEvent
    /\ NegUnchanged

\* createOffer resolved (second cycle): setLocalDescription(offer).
NegCreateOffer2(n, ok) ==
    /\ negs[n].pc = "createOffer2"
    /\ ok \in OfferOutcomes(negs[n].connection)
    /\ negs' = IF ok THEN [negs EXCEPT ![n].pc = "setLocalDescription2"]
               ELSE [negs EXCEPT ![n] = NoNeg]
    /\ lastEvent' = NoEvent
    /\ NegUnchanged

\* The client info the join request is built from: ufrag, pwd, hash,
\* fingerprint and source are destructured from the client info of the first
\* offer, and the client info parsed from the second offer is only logged.
joinClientInfo(offer1, offer2) == parseSdp(offer1)

\* setLocalDescription resolved (second cycle): meSignSource is stored on
\* the session and the joinGroupCall request is sent.  offer1 and offer2 are
\* the offers the two createOffer calls produced; nothing outside
\* startNegotiation reads them before this point, so they are drawn here.
NegSetLocalDescription2(n, offer1, offer2, ok) ==
    /\ negs[n].pc = "setLocalDescription2"
    /\ ok \in OfferOutcomes(negs[n].connection)
    /\ IF ok
       THEN LET clientInfo == joinClientInfo(offer1, offer2)
                meSignSource == toTelegramSource(clientInfo.source)
                st0 == [Cur EXCEPT !.sessions[negs[n].session].meSignSource = meSignSource]
                st == IF ~negs[n].rejoin
                      THEN startConnectingSound(st0, negs[n].connection)
                      ELSE st0
                request == [type |-> "joinGroupCall",
                            group_call_id |-> negs[n].groupCallId,
                            chat_id |-> 0,
                            cred |-> clientInfo.cred,
                            source |-> meSignSource,
                            is_muted |-> negs[n].isMuted]
            IN  /\ Commit(send(st, request))
                /\ negs' = [negs EXCEPT ![n].pc = "joinGroupCall"]
                /\ lastEvent' = [type |-> "joinGroupCall", session |-> negs[n].session,
                                 connection |-> negs[n].connection,
                                 rejoin |-> negs[n].rejoin,
                                 offer1 |-> offer1, offer2 |-> offer2]
       ELSE /\ Commit(Cur)
            /\ negs' = [negs EXCEPT ![n] = NoNeg]
            /\ lastEvent' = NoEvent
    /\ UNCHANGED joins

\* A variant of the continuation that merely returns when the request
\* brought no result.
startNegotiationJoinedLeavingOpen(st, neg, result) ==
    LET connection == neg.connection
        streamManager == neg.streamManager
        cgc == st.currentGroupCall
    IN  IF ~result THEN st
        ELSE IF cgc = 0 THEN st
        ELSE
          LET st1 == [st EXCEPT !.sessions[cgc].transport = getTransport(connection)] IN
          IF st1.conns[connection].ice # "new"
          THEN closeConnectionAndStream(st1, connection, streamManager)
          ELSE IF cgc # neg.session
          THEN closeConnectionAndStream(st1, connection, streamManager)
          ELSE IF st1.sessions[neg.session].connection # connection
          THEN closeConnectionAndStream(st1, connection, streamManager)
          ELSE send([st1 EXCEPT !.sessions[neg.session].description = TRUE],
                    [NoRequest EXCEPT !.type = "loadGroupCallParticipants",
                                      !.group_call_id = neg.groupCallId])

\* The joinGroupCall request returned (result is FALSE when it failed or
\* returned nothing): the transport is stored, the three guards are checked
\* and loadGroupCallParticipants is sent.  this.currentGroupCall.transport
\* throws when no session is current, which ends startNegotiation there.
startNegotiationJoined(st, neg, result) ==
    LET connection == neg.connection
        streamManager == neg.streamManager
        cgc == st.currentGroupCall
    IN  IF ~result THEN closeConnectionAndStream(st, connection, streamManager)
        ELSE IF cgc = 0 THEN st
        ELSE
          LET st1 == [st EXCEPT !.sessions[cgc].transport = getTransport(connection)] IN
          IF st1.conns[connection].ice # "new"
          THEN closeConnectionAndStream(st1, connection, streamManager)
          ELSE IF cgc # neg.session
          THEN closeConnectionAndStream(st1, connection, streamManager)
          ELSE IF st1.sessions[neg.session].connection # connection
          THEN closeConnectionAndStream(st1, connection, streamManager)
          ELSE send([st1 EXCEPT !.sessions[neg.session].description = TRUE],
                    [NoRequest EXCEPT !.type = "loadGroupCallParticipants",
                                      !.group_call_id = neg.groupCallId])

\* Whether startNegotiationJoined goes on to load the participants.
startNegotiationContinues(st, neg, result) ==
    /\ result
    /\ st.currentGroupCall = neg.session
    /\ st.conns[neg.connection].ice = "new"
    /\ st.sessions[neg.session].connection = neg.connection

NegJoinGroupCall(n, result) ==
    /\ negs[n].pc = "joinGroupCall"
    /\ Commit(startNegotiationJoined(Cur, negs[n], result))
    /\ negs' = IF startNegotiationContinues(Cur, negs[n], result)
               THEN [negs EXCEPT ![n].pc = "loadGroupCallParticipants1"]
               ELSE [negs EXCEPT ![n] = NoNeg]
    /\ lastEvent' = [type |-> "joinGroupCallResult",
                     session |-> negs[n].session,
                     connection |-> negs[n].connection,
                     streamManager |-> negs[n].streamManager,
                     result |-> result,
                     activeAtStart |-> negs[n].activeAtStart,
                     superseded |-> Superseded(negs[n].session, negs[n].connection),
                     wasClosed |-> Closed(conns, negs[n].connection)]
    /\ UNCHANGED joins

\* The first loadGroupCallParticipants returned: it is sent again.
NegLoadGroupCallParticipants1(n) ==
    /\ negs[n].pc = "loadGroupCallParticipants1"
    /\ negs' = [negs EXCEPT ![n].pc = "loadGroupCallParticipants2"]
    /\ lastEvent' = NoEvent
    /\ NegUnchanged

\* The second loadGroupCallParticipants returned: the local user's record
\* gets the session's source when it carries another one, and the initial
\* answer, whose only source is the local user, is handed to
\* connection.setRemoteDescription.
NegLoadGroupCallParticipants2(n) ==
    /\ negs[n].pc = "loadGroupCallParticipants2"
    /\ LET groupCallId == negs[n].groupCallId
           meSignSource == sessions[negs[n].session].meSignSource
           me == Lookup(participants[groupCallId], MyId)
           fixed == IF me # << >> /\ me[1].source # meSignSource
                    THEN MapSet(participants[groupCallId], [me[1] EXCEPT !.source = meSignSource])
                    ELSE participants[groupCallId]
       IN  /\ participants' = [participants EXCEPT ![groupCallId] = fixed]
           /\ negs' = [negs EXCEPT ![n].pc = "setRemoteDescription",
                                   ![n].sdp = << [ssrc |-> fromTelegramSource(meSignSource),
                                                  isMain |-> TRUE,
                                                  userId |-> MyId] >>]
    /\ lastEvent' = NoEvent
    /\ UNCHANGED << currentGroupCall, sessions, nSessions, conns, nConns, sms,
                    nSms, items, joins, runs, isThrottled, savedArgs,
                    throttleTimer, sinceBodyStart, lastGap,
                    soundVars, speakVars, logout, startVars >>
    /\ lastHangUp' = NoHangUp
    /\ lastRequest' = NoRequest

\* A variant of the pass that enters the body of updateGroupCallParticipants
\* directly, as if the constructor had not wrapped the method.
startNegotiationPassUnthrottled(st, groupCallId) ==
    updateGroupCallParticipantsStart(st, groupCallId)

\* The renegotiation pass startNegotiation runs after the initial answer:
\* this.updateGroupCallParticipants is the throttled wrapper.
startNegotiationPass(st, groupCallId) ==
    updateGroupCallParticipants(st, groupCallId)

\* setRemoteDescription(answer) settled: when it resolved the session is
\* marked eligible and one renegotiation pass is requested.
NegSetRemoteDescription(n, ok) ==
    /\ negs[n].pc = "setRemoteDescription"
    /\ ok \in Outcomes(negs[n].connection)
    /\ IF ok
       THEN LET st == [Cur EXCEPT
                         !.conns[negs[n].connection].remote = [type |-> "answer", ssrcs |-> negs[n].sdp],
                         !.sessions[negs[n].session].handleUpdateGroupCallParticipants = TRUE]
            IN  Commit(startNegotiationPass(st, negs[n].groupCallId))
       ELSE Commit(Cur)
    /\ negs' = [negs EXCEPT ![n] = NoNeg]
    /\ lastEvent' = IF ok
                    THEN [type |-> "answer",
                          session |-> negs[n].session,
                          connection |-> negs[n].connection,
                          superseded |-> Superseded(negs[n].session, negs[n].connection)]
                    ELSE NoEvent
    /\ UNCHANGED joins

(* --------------------------- renegotiation run ------------------------ *)
\* The finally clause of updateGroupCallParticipants.
runFinally(st, r) ==
    [st EXCEPT !.sessions[st.runs[r].session].updatingSdp = FALSE, !.runs[r] = NoRun]

\* A variant of a failing run that leaves without the finally clause.
runFailedWithoutFinally(st, r) ==
    [st EXCEPT !.runs[r] = NoRun]

\* What a run does when an awaited operation rejects: the exception leaves
\* through the finally clause.
runFailed(st, r) ==
    runFinally(st, r)

\* setRemoteDescription(offer) settled: createAnswer().
RunSetRemoteDescription(r, ok) ==
    /\ runs[r].pc = "setRemoteDescription"
    /\ ok \in Outcomes(runs[r].connection)
    /\ IF ok
       THEN Commit([Cur EXCEPT
                      !.conns[runs[r].connection].remote = [type |-> "offer", ssrcs |-> runs[r].ssrcs],
                      !.runs[r].pc = "createAnswer"])
       ELSE Commit(runFailed(Cur, r))
    /\ lastEvent' = [type |-> "run", session |-> runs[r].session, ok |-> ok]
    /\ UNCHANGED << joins, negs >>

\* createAnswer() settled: setLocalDescription(answer).
RunCreateAnswer(r, ok) ==
    /\ runs[r].pc = "createAnswer"
    /\ ok \in Outcomes(runs[r].connection)
    /\ IF ok
       THEN Commit([Cur EXCEPT !.runs[r].pc = "setLocalDescription"])
       ELSE Commit(runFailed(Cur, r))
    /\ lastEvent' = [type |-> "run", session |-> runs[r].session, ok |-> ok]
    /\ UNCHANGED << joins, negs >>

\* setLocalDescription(answer) settled: the run ends.
RunSetLocalDescription(r, ok) ==
    /\ runs[r].pc = "setLocalDescription"
    /\ ok \in Outcomes(runs[r].connection)
    /\ IF ok
       THEN Commit(runFinally(Cur, r))
       ELSE Commit(runFailed(Cur, r))
    /\ lastEvent' = [type |-> "run", session |-> runs[r].session, ok |-> ok]
    /\ UNCHANGED << joins, negs >>

(* ------------------------------- time --------------------------------- *)
\* The timer of throttle() fires.
ThrottleTimeout ==
    /\ throttleTimer = 0
    /\ Commit(throttleTimeout(Cur))
    /\ lastEvent' = NoEvent
    /\ UNCHANGED << joins, negs >>

Min(a, b) == IF a < b THEN a ELSE b

\* The timers that count down: the throttle's, the speaking timers and the
\* cancel-speaking timers.
TimerValues ==
    {throttleTimer}
    \cup {speakingTimers[i].ms : i \in 1..Len(speakingTimers)}
    \cup {cancelSpeakingTimer[s][x] : s \in SessionIds, x \in SpeakSources}

\* Time passes by step ms, or up to the next timer when that is sooner; no
\* time passes while a timer is due.
Advance(step) ==
    /\ 0 \notin TimerValues
    /\ LET pending == {t \in TimerValues : t > 0}
           d == IF pending = {} THEN step
                ELSE Min(step, CHOOSE t \in pending : \A u \in pending : t <= u)
       IN  /\ throttleTimer' = IF throttleTimer > 0 THEN throttleTimer - d ELSE throttleTimer
           /\ sinceBodyStart' = Min(THROTTLE_MS, sinceBodyStart + d)
           /\ speakingTimers' = [i \in 1..Len(speakingTimers) |->
                                    [speakingTimers[i] EXCEPT !.ms = @ - d]]
           /\ cancelSpeakingTimer' =
                  [s \in SessionIds |-> [x \in SpeakSources |->
                      IF cancelSpeakingTimer[s][x] > 0
                      THEN cancelSpeakingTimer[s][x] - d
                      ELSE cancelSpeakingTimer[s][x]]]
           /\ isSpeakingMap' =
                  [s \in SessionIds |-> [x \in SpeakSources |->
                      IF isSpeakingMap[s][x].known
                      THEN [isSpeakingMap[s][x] EXCEPT
                               !.sinceFlip = Min(CANCEL_SPEAKING_MS, @ + d)]
                      ELSE isSpeakingMap[s][x]]]
    /\ \/ \E t \in TimerValues : t > 0
       \/ sinceBodyStart < THROTTLE_MS
       \/ \E s \in SessionIds, x \in SpeakSources :
             isSpeakingMap[s][x].known /\ isSpeakingMap[s][x].sinceFlip < CANCEL_SPEAKING_MS
    /\ lastEvent' = NoEvent
    /\ UNCHANGED << currentGroupCall, sessions, nSessions, conns, nConns, sms,
                    nSms, items, participants, joins, negs, runs, isThrottled,
                    savedArgs, lastGap, soundVars, logout, startVars >>
    /\ lastHangUp' = NoHangUp
    /\ lastRequest' = NoRequest

\* Time passes, up to the next timer.
Tick == Advance(TickMs)

\* Time passes between two amplitude samples.
TickSample == Advance(SampleMs)

\* The callback of startConnectingSound's timer runs.
ConnectingSoundTimeout ==
    /\ soundTimers # << >>
    /\ Commit(connectingSoundTimeout(Cur, Head(soundTimers)))
    /\ lastEvent' = NoEvent
    /\ UNCHANGED << joins, negs >>

(* ------------------------------ speaking ------------------------------ *)
\* What the amplitude handler leaves alone.
SpeakingUnchanged ==
    /\ UNCHANGED << currentGroupCall, sessions, nSessions, conns, nConns, sms,
                    nSms, items, participants, joins, negs, runs, isThrottled,
                    savedArgs, throttleTimer, sinceBodyStart, lastGap, soundVars,
                    logout, startVars >>
    /\ lastHangUp' = NoHangUp

\* The local telegramSource of the amplitude handler: the translation of
\* the sampled source for a sample of type 'input', the session's
\* meSignSource for one of type 'output'.
telegramSourceOf(type, source, meSignSource) ==
    CASE type = "input" -> toTelegramSource(source)
      [] type = "output" -> meSignSource
      [] OTHER -> 0

\* onClientUpdate, clientUpdateGroupCallAmplitude with one sample: when the
\* candidate state of the source flips, a flip to speaking clears the
\* cancel timer and sets a new speaking timer, a flip to silent clears the
\* cancel timer and sets a new one.  A speaking timer is never cleared.
Amplitude(type, source, value) ==
    /\ LET cgc == currentGroupCall
           isSpeaking == value > SPEAKING_THRESHOLD
           telegramSource == telegramSourceOf(type, source, sessions[cgc].meSignSource)
       IN  IF cgc = 0 THEN UNCHANGED speakVars
           ELSE IF isSpeaking = isSpeakingMap[cgc][source].isSpeaking
           THEN /\ isSpeakingMap' = [isSpeakingMap EXCEPT ![cgc][source].known = TRUE]
                /\ UNCHANGED << speakingTimers, cancelSpeakingTimer >>
           ELSE IF isSpeaking
           THEN /\ Len(speakingTimers) < MaxSpeakingTimers
                /\ isSpeakingMap' = [isSpeakingMap EXCEPT ![cgc][source] =
                       [known |-> TRUE, isSpeaking |-> TRUE, sinceFlip |-> 0, reports |-> 0,
                        telegramSource |-> telegramSource,
                        reported |-> isSpeakingMap[cgc][source].reported]]
                /\ cancelSpeakingTimer' = [cancelSpeakingTimer EXCEPT ![cgc][source] = -1]
                /\ speakingTimers' = Append(speakingTimers,
                       [session |-> cgc, source |-> source, ms |-> SPEAKING_MS,
                        telegramSource |-> telegramSource])
           ELSE /\ isSpeakingMap' = [isSpeakingMap EXCEPT ![cgc][source] =
                       [known |-> TRUE, isSpeaking |-> FALSE, sinceFlip |-> 0, reports |-> 0,
                        telegramSource |-> telegramSource,
                        reported |-> isSpeakingMap[cgc][source].reported]]
                /\ cancelSpeakingTimer' = [cancelSpeakingTimer EXCEPT ![cgc][source] = CANCEL_SPEAKING_MS]
                /\ UNCHANGED speakingTimers
    /\ lastEvent' = NoEvent
    /\ lastRequest' = NoRequest
    /\ SpeakingUnchanged

\* The request a speaking timer sends.
isSpeakingRequest(session, source) ==
    [NoRequest EXCEPT !.type = "setGroupCallParticipantIsSpeaking",
                      !.group_call_id = sessions[session].groupCallId,
                      !.source = toTelegramSource(source)]

\* The callback of the oldest params.speakingTimer runs: it reports
\* is_speaking true when params.isSpeaking is true by then.
SpeakingTimeout ==
    /\ speakingTimers # << >>
    /\ Head(speakingTimers).ms = 0
    /\ LET t == Head(speakingTimers)
           sent == isSpeakingMap[t.session][t.source].isSpeaking
       IN  /\ speakingTimers' = Tail(speakingTimers)
           /\ lastRequest' = IF sent THEN isSpeakingRequest(t.session, t.source) ELSE NoRequest
           /\ isSpeakingMap' = IF sent
                               THEN [isSpeakingMap EXCEPT ![t.session][t.source].reports = Min(2, @ + 1),
                                                          ![t.session][t.source].reported = "true"]
                               ELSE isSpeakingMap
           /\ lastEvent' = [type |-> "isSpeaking", session |-> t.session,
                            source |-> t.source, is_speaking |-> TRUE, sent |-> sent,
                            telegramSource |-> t.telegramSource,
                            previous |-> isSpeakingMap[t.session][t.source].reported]
    /\ UNCHANGED cancelSpeakingTimer
    /\ SpeakingUnchanged

\* The callback of params.cancelSpeakingTimer runs: it reports is_speaking
\* false when params.isSpeaking is false by then.
CancelSpeakingTimeout(session, source) ==
    /\ cancelSpeakingTimer[session][source] = 0
    /\ LET sent == ~isSpeakingMap[session][source].isSpeaking
       IN  /\ cancelSpeakingTimer' = [cancelSpeakingTimer EXCEPT ![session][source] = -1]
           /\ lastRequest' = IF sent THEN isSpeakingRequest(session, source) ELSE NoRequest
           /\ isSpeakingMap' = IF sent
                               THEN [isSpeakingMap EXCEPT ![session][source].reports = Min(2, @ + 1),
                                                          ![session][source].reported = "false"]
                               ELSE isSpeakingMap
           /\ lastEvent' = [type |-> "isSpeaking", session |-> session,
                            source |-> source, is_speaking |-> FALSE, sent |-> sent,
                            telegramSource |-> isSpeakingMap[session][source].telegramSource,
                            previous |-> isSpeakingMap[session][source].reported]
    /\ UNCHANGED speakingTimers
    /\ SpeakingUnchanged

(* -------------------------------- mute -------------------------------- *)
\* changeMuted(muted)
ChangeMuted(muted) ==
    /\ LET cgc == currentGroupCall IN
       IF cgc = 0 THEN Commit(Cur)
       ELSE LET streamManager == sessions[cgc].streamManager
                st == IF sms[streamManager].inputLive
                      THEN [Cur EXCEPT !.sms[streamManager].enabled = ~muted]
                      ELSE Cur
            IN  Commit(send(st, [NoRequest EXCEPT
                                    !.type = "toggleGroupCallParticipantIsMuted",
                                    !.group_call_id = sessions[cgc].groupCallId,
                                    !.is_muted = muted]))
    /\ lastEvent' = [type |-> "changeMuted", muted |-> muted]
    /\ UNCHANGED << joins, negs >>

\* changeUserMuted(userId, muted): for the local user the audio tracks of
\* the connection's senders are the input tracks added when it was created.
ChangeUserMuted(userId, muted) ==
    /\ LET cgc == currentGroupCall IN
       IF cgc = 0 THEN Commit(Cur)
       ELSE LET streamManager == sessions[cgc].streamManager
                st == IF /\ userId = MyId
                         /\ sms[streamManager].inputLive
                         /\ ~Closed(conns, sessions[cgc].connection)
                      THEN [Cur EXCEPT !.sms[streamManager].enabled = ~muted]
                      ELSE Cur
            IN  Commit(send(st, [NoRequest EXCEPT
                                    !.type = "toggleGroupCallParticipantIsMuted",
                                    !.group_call_id = sessions[cgc].groupCallId,
                                    !.is_muted = muted]))
    /\ lastEvent' = [type |-> "changeUserMuted", user_id |-> userId, muted |-> muted]
    /\ UNCHANGED << joins, negs >>

(* --------------------------- specification ---------------------------- *)
Orders == {"0", "1", "2"}

\* The steps of startNegotiation after its entry, the offers drawn from
\* offers and the outcome of the joinGroupCall request from results.
Negotiation(offers, results) ==
    \/ \E n \in NegIds, ok \in BOOLEAN : NegCreateOffer1(n, ok)
    \/ \E n \in NegIds, ok \in BOOLEAN : NegSetLocalDescription1(n, ok)
    \/ \E n \in NegIds, ok \in BOOLEAN : NegCreateOffer2(n, ok)
    \/ \E n \in NegIds, offer1 \in offers, offer2 \in offers, ok \in BOOLEAN :
          NegSetLocalDescription2(n, offer1, offer2, ok)
    \/ \E n \in NegIds, result \in results : NegJoinGroupCall(n, result)
    \/ \E n \in NegIds : NegLoadGroupCallParticipants1(n)
    \/ \E n \in NegIds : NegLoadGroupCallParticipants2(n)
    \/ \E n \in NegIds, ok \in BOOLEAN : NegSetRemoteDescription(n, ok)

\* The steps of a renegotiation run after its entry, the outcomes of the
\* awaited operations drawn from outcomes.
Renegotiation(outcomes) ==
    \/ \E r \in RunIds, ok \in outcomes : RunSetRemoteDescription(r, ok)
    \/ \E r \in RunIds, ok \in outcomes : RunCreateAnswer(r, ok)
    \/ \E r \in RunIds, ok \in outcomes : RunSetLocalDescription(r, ok)

\* No joinGroupCall has been called yet.
NoJoinYet == nSms = 0 /\ FreeJoins = JoinIds

\* Joining: the user joins call 1 any number of times, answers the alert and
\* leaves, while the joins negotiate.  No roster is pushed, so no
\* renegotiation run gets past its snapshot.
Next ==
    \/ JoinGroupCall(1, TRUE)
    \/ \E j \in JoinIds : JoinGetStreamFailed(j)
    \/ \E j \in JoinIds : JoinGetStream(j)
    \/ \E j \in JoinIds, result \in BOOLEAN : JoinAlertResult(j, result)
    \/ LeaveGroupCall(1)
    \/ \E c \in ConnIds : NegotiationNeeded(c)
    \/ Negotiation(Offers, BOOLEAN)
    \/ ConnectingSoundTimeout

Spec == Init /\ [][Next]_vars

\* No rejoin has replaced the first connection yet.
NoRejoinYet == nConns = 1

\* The transport asks for a negotiation after addTrack, and by itself only
\* while no negotiation is under way.
TransportAsks(c) == conns[c].negotiationNeeded \/ FreeNegs = NegIds

\* One session through its life: the user joins call 1 once; the server
\* pushes group-call updates and asks once for a rejoin, the transport
\* changes its connectivity state and asks for negotiation, the user leaves.
NextSession ==
    \/ NoJoinYet /\ JoinGroupCall(1, TRUE)
    \/ \E j \in JoinIds : JoinGetStream(j)
    \/ LeaveGroupCall(1)
    \/ \E is_joined \in BOOLEAN : UpdateGroupCall(1, FALSE, is_joined)
    \/ NoRejoinYet /\ UpdateGroupCall(1, TRUE, TRUE)
    \/ \E c \in ConnIds, state \in {"checking", "connected", "failed"} :
          IceConnectionStateChange(c, state)
    \/ \E c \in ConnIds : TransportAsks(c) /\ NegotiationNeeded(c)
    \/ Negotiation(Offers, BOOLEAN)
    \/ ConnectingSoundTimeout
    \/ LeaveGroupCallForceDiscard(1)

SpecSession == Init /\ [][NextSession]_vars

\* The roster of one session: the user joins call 1 once; the server pushes
\* participant updates for user 2 in call 1 and in call 2 and asks once for
\* a rejoin; renegotiation runs, the throttle timer and time.
NextRoster ==
    \/ NoJoinYet /\ JoinGroupCall(1, TRUE)
    \/ \E j \in JoinIds : JoinGetStream(j)
    \/ NoRejoinYet /\ UpdateGroupCall(1, TRUE, TRUE)
    \/ \E order \in Orders, muted \in BOOLEAN :
          UpdateGroupCallParticipant(1, 2, order, 2, muted, FALSE)
    \/ UpdateGroupCallParticipant(2, 2, "1", 2, FALSE, FALSE)
    \/ \E c \in ConnIds : NegotiationNeeded(c)
    \/ Negotiation({[cred |-> 1, source |-> SourceMod - 2]}, {TRUE})
    \/ Renegotiation(BOOLEAN)
    \/ ThrottleTimeout
    \/ ConnectingSoundTimeout
    \/ Tick

SpecRoster == Init /\ [][NextRoster]_vars

\* The roster of one session whose transport and requests never fail: the
\* user joins call 1 once, the server pushes participant updates for user 2
\* in call 1 and in call 2, and every awaited operation resolves.
NextSteady ==
    \/ NoJoinYet /\ JoinGroupCall(1, TRUE)
    \/ \E j \in JoinIds : JoinGetStream(j)
    \/ \E order \in Orders :
          UpdateGroupCallParticipant(1, 2, order, 2, FALSE, FALSE)
    \/ UpdateGroupCallParticipant(2, 2, "1", 2, FALSE, FALSE)
    \/ \E c \in ConnIds : NegotiationNeeded(c)
    \/ Negotiation({[cred |-> 1, source |-> SourceMod - 2]}, {TRUE})
    \/ Renegotiation({TRUE})
    \/ ThrottleTimeout
    \/ ConnectingSoundTimeout
    \/ Tick

SpecSteady == Init /\ [][NextSteady]_vars

\* The speaking detector of one call: the user joins call 1, leaves it and
\* joins again, while the amplitude of one source is sampled below, at and
\* above the threshold and the speaking timers run.
Amplitudes == {SPEAKING_THRESHOLD - 10, SPEAKING_THRESHOLD, SPEAKING_THRESHOLD + 10}

NextSpeaking ==
    \/ currentGroupCall = 0 /\ FreeJoins = JoinIds /\ JoinGroupCall(1, TRUE)
    \/ \E j \in JoinIds : JoinGetStream(j)
    \/ LeaveGroupCall(1)
    \/ \E source \in SpeakSources, value \in Amplitudes :
          Amplitude("input", source, value)
    \/ SpeakingTimeout
    \/ \E session \in SessionIds, source \in SpeakSources :
          CancelSpeakingTimeout(session, source)
    \/ TickSample

SpecSpeaking == Init /\ [][NextSpeaking]_vars

\* The input track of one session: the user joins call 1 muted or unmuted
\* and toggles the microphone, for themselves or through the participant
\* list, while the server pushes the local user's record for call 1 and for
\* call 2 with and without the mute flags.
NextMute ==
    \/ \E muted \in BOOLEAN : NoJoinYet /\ JoinGroupCall(1, muted)
    \/ \E j \in JoinIds : JoinGetStream(j)
    \/ LeaveGroupCall(1)
    \/ \E muted \in BOOLEAN : ChangeMuted(muted)
    \/ \E userId \in Users, muted \in BOOLEAN : ChangeUserMuted(userId, muted)
    \/ \E group_call_id \in Calls, user_id \in Users,
          is_muted_for_all_users \in BOOLEAN, is_muted_for_current_user \in BOOLEAN :
          UpdateGroupCallParticipant(group_call_id, user_id, "1", 1,
                                     is_muted_for_all_users, is_muted_for_current_user)
    \/ ThrottleTimeout
    \/ Tick

SpecMute == Init /\ [][NextMute]_vars

\* The source lists of one session whose operations all succeed: the user
\* joins call 1 once, and the server pushes the records of the local user
\* and of user 2 in call 1, active and inactive, the local user's with the
\* session's source or with another one.
NextSources ==
    \/ NoJoinYet /\ JoinGroupCall(1, TRUE)
    \/ \E j \in JoinIds : JoinGetStream(j)
    \/ \E order \in {"0", "1"}, source \in {1, SourceMod - 2} :
          UpdateGroupCallParticipant(1, MyId, order, toTelegramSource(source), FALSE, FALSE)
    \/ \E order \in {"0", "1"} :
          UpdateGroupCallParticipant(1, 2, order, 2, FALSE, FALSE)
    \/ \E c \in ConnIds : NegotiationNeeded(c)
    \/ Negotiation({[cred |-> 1, source |-> SourceMod - 2]}, {TRUE})
    \/ Renegotiation({TRUE})
    \/ ThrottleTimeout
    \/ Tick

SpecSources == Init /\ [][NextSources]_vars

\* The user starts a join only when none is waiting for its capture or for
\* the alert, and only while at most one capture has succeeded.
OneJoinAtATime == FreeJoins = JoinIds /\ nSms <= 1

\* Capture: the user joins call 1 or call 2, one join at a time; the capture
\* fails or succeeds, the user answers the alert of a second join and
\* leaves, and the joins negotiate.
NextCapture ==
    \/ \E groupCallId \in Calls : OneJoinAtATime /\ JoinGroupCall(groupCallId, TRUE)
    \/ \E j \in JoinIds : JoinGetStreamFailed(j)
    \/ \E j \in JoinIds : JoinGetStream(j)
    \/ \E j \in JoinIds, result \in BOOLEAN : JoinAlertResult(j, result)
    \/ \E groupCallId \in Calls : LeaveGroupCall(groupCallId)
    \/ \E id \in Calls, is_joined \in BOOLEAN : UpdateGroupCall(id, FALSE, is_joined)
    \/ \E c \in ConnIds : NegotiationNeeded(c)
    \/ Negotiation({[cred |-> 1, source |-> 1]}, BOOLEAN)
    \/ ConnectingSoundTimeout

SpecCapture == Init /\ [][NextCapture]_vars

\* The server asks for a rejoin at most once while a session is current.
OneRejoin(need_rejoin) == (need_rejoin /\ currentGroupCall # 0) => NoRejoinYet

\* Group-call updates: the user joins call 1 once and the join negotiates;
\* the server pushes updates of call 1 and of call 2 and asks once for a
\* rejoin; hangUp is called for either call, with and without a session.
NextUpdate ==
    \/ NoJoinYet /\ JoinGroupCall(1, TRUE)
    \/ \E j \in JoinIds : JoinGetStream(j)
    \/ \E id \in Calls, need_rejoin \in BOOLEAN, is_joined \in BOOLEAN :
          OneRejoin(need_rejoin) /\ UpdateGroupCall(id, need_rejoin, is_joined)
    \/ \E groupCallId \in Calls, discard \in BOOLEAN : HangUp(groupCallId, discard)
    \/ \E c \in ConnIds : TransportAsks(c) /\ NegotiationNeeded(c)
    \/ Negotiation(Offers, BOOLEAN)
    \/ ConnectingSoundTimeout

SpecUpdate == Init /\ [][NextUpdate]_vars

\* The chats a voice chat is started in.
Chats == {1, 2}

\* Starting a voice chat: the user joins call 1 once and the join
\* negotiates; the user starts a voice chat in another chat, with and
\* without a session, and answers the alert; the server reports that the
\* user is or is not joined to call 1; hang-up requests are answered.
NextStart ==
    \/ NoJoinYet /\ JoinGroupCall(1, TRUE)
    \/ \E j \in JoinIds : JoinGetStream(j)
    \/ \E chatId \in Chats : StartGroupCall(chatId)
    \/ \E result \in BOOLEAN : StartAlertResult(result)
    \/ StartHangUpReturned
    \/ \E session \in SessionIds : HangUpAnswered(session)
    \/ \E is_joined \in BOOLEAN : UpdateGroupCall(1, FALSE, is_joined)
    \/ \E c \in ConnIds : TransportAsks(c) /\ NegotiationNeeded(c)
    \/ Negotiation({[cred |-> 1, source |-> 1]}, {TRUE})
    \/ ConnectingSoundTimeout

SpecStart == Init /\ [][NextStart]_vars

\* The speaking reports of one session: the user joins call 1 once and the
\* join negotiates, which gives the session its self-source, while samples
\* of both types are taken of one source below and above the threshold and
\* the speaking timers run.
NextReport ==
    \/ NoJoinYet /\ JoinGroupCall(1, TRUE)
    \/ \E j \in JoinIds : JoinGetStream(j)
    \/ \E c \in ConnIds : NegotiationNeeded(c)
    \/ Negotiation({[cred |-> 1, source |-> 1]}, {TRUE})
    \/ \E type \in {"input", "output"}, source \in SpeakSources,
          value \in {SPEAKING_THRESHOLD - 10, SPEAKING_THRESHOLD + 10} :
          Amplitude(type, source, value)
    \/ SpeakingTimeout
    \/ \E session \in SessionIds, source \in SpeakSources :
          CancelSpeakingTimeout(session, source)
    \/ TickSample

SpecReport == Init /\ [][NextReport]_vars

\* Two joins of call 1 started while no session is current: their captures
\* resolve one after the other, the connections ask for negotiation, the
\* negotiations succeed, and the connections change their connectivity
\* state.
NextRace ==
    \/ currentGroupCall = 0 /\ JoinGroupCall(1, TRUE)
    \/ \E j \in JoinIds : JoinGetStream(j)
    \/ \E c \in ConnIds : NegotiationNeeded(c)
    \/ Negotiation({[cred |-> 1, source |-> 1]}, {TRUE})
    \/ \E c \in ConnIds, state \in {"checking", "connected", "failed"} :
          IceConnectionStateChange(c, state)
    \/ ConnectingSoundTimeout

SpecRace == Init /\ [][NextRace]_vars

\* Logging out of one session: the user joins call 1 once, the join
\* negotiates, the server pushes the group call with and without is_joined,
\* and the authorization state changes to logging out.
NextLogout ==
    \/ NoJoinYet /\ JoinGroupCall(1, TRUE)
    \/ \E j \in JoinIds : JoinGetStream(j)
    \/ \E is_joined \in BOOLEAN : UpdateGroupCall(1, FALSE, is_joined)
    \/ \E c \in ConnIds : NegotiationNeeded(c)
    \/ Negotiation({[cred |-> 1, source |-> 1]}, {TRUE})
    \/ UpdateAuthorizationStateLoggingOut
    \/ LoggingOutReset
    \/ ConnectingSoundTimeout

SpecLogout == Init /\ [][NextLogout]_vars

(* ------------------------------- claims ------------------------------- *)
\* C1: at most one session is live: every session object that is not the
\* current one was hung up, its connection closed and its input tracks
\* stopped, whatever the interleaving of the joins.
C1_OneLiveSession ==
    \A s \in 1..nSessions :
        s # currentGroupCall =>
            /\ Closed(conns, sessions[s].connection)
            /\ ~sms[sessions[s].streamManager].inputLive

\* C2: for one session, at most one run of updateGroupCallParticipants is
\* between setting updatingSdp and clearing it.
C2_OneRunPerSession ==
    \A r1 \in RunIds, r2 \in RunIds :
        (/\ runs[r1].pc # "idle"
         /\ runs[r2].pc # "idle"
         /\ runs[r1].session = runs[r2].session) => r1 = r2

\* C3: a startNegotiation whose session was superseded never applies its
\* remote answer.
C3_StaleAnswerNeverApplied ==
    lastEvent.type = "answer" => ~lastEvent.superseded

\* C4: a startNegotiation that resumes from its join request after its
\* session was superseded leaves the current session, and the media
\* aggregator the current session uses, as they were.
C4_StaleJoinLeavesSession ==
    [][\A n \in NegIds :
          (/\ negs[n].pc = "joinGroupCall"
           /\ negs'[n].pc # "joinGroupCall"
           /\ Superseded(negs[n].session, negs[n].connection)
           /\ currentGroupCall # 0)
          => (/\ currentGroupCall' = currentGroupCall
              /\ sessions'[currentGroupCall] = sessions[currentGroupCall]
              /\ sms'[sessions[currentGroupCall].streamManager]
                    = sms[sessions[currentGroupCall].streamManager])]_vars

\* C5: the self-source stored on the session and the source and credentials
\* of the joinGroupCall request are those of the second offer.
C5_RequestFromLastOffer ==
    lastEvent.type = "joinGroupCall" =>
        /\ lastRequest.cred = parseSdp(lastEvent.offer2).cred
        /\ lastRequest.source = toTelegramSource(parseSdp(lastEvent.offer2).source)
        /\ sessions[lastEvent.session].meSignSource
              = toTelegramSource(parseSdp(lastEvent.offer2).source)

\* C6: when the join request of a startNegotiation that the transport asked
\* for on an active session returns a result, and the session was not
\* superseded meanwhile, the connection stays open and the input tracks stay
\* live.
C6_ActiveSessionSurvivesNegotiation ==
    (/\ lastEvent.type = "joinGroupCallResult"
     /\ lastEvent.result
     /\ lastEvent.activeAtStart
     /\ ~lastEvent.superseded
     /\ ~lastEvent.wasClosed)
    => /\ ~Closed(conns, lastEvent.connection)
       /\ sms[lastEvent.streamManager].inputLive

\* C7: two starts of the body of updateGroupCallParticipants are at least
\* THROTTLE_MS apart, whoever called it.
C7_OneStartPerWindow == lastGap >= THROTTLE_MS

\* A second start: a run has just started on a connection to which an
\* earlier run already applied a remote offer.
C7_Witness ==
    /\ sinceBodyStart = 0
    /\ \E r \in RunIds :
          /\ runs[r].pc = "setRemoteDescription"
          /\ conns[runs[r].connection].remote.type = "offer"

\* C8: the step that ends a run, by completion or by an exception, leaves
\* updatingSdp of the run's session false, and starts no run and defers no
\* call.
C8_RunClearsFlag ==
    [][\A r \in RunIds :
          (runs[r].pc # "idle" /\ runs'[r].pc = "idle")
          => (/\ ~sessions'[runs[r].session].updatingSdp
              /\ \A q \in RunIds \ {r} : runs'[q] = runs[q]
              /\ isThrottled' = isThrottled
              /\ savedArgs' = savedArgs
              /\ throttleTimer' = throttleTimer)]_vars

\* A run has just ended by an exception.
C8_Witness ==
    /\ lastEvent.type = "run"
    /\ ~lastEvent.ok
    /\ ~sessions[lastEvent.session].updatingSdp

\* C9: an updateGroupCallParticipant update requests a renegotiation exactly
\* when there was no prior record or the previous and the new order lie on
\* opposite sides of the "0" boundary.
C9_RequestIffCrossing ==
    lastEvent.type = "updateGroupCallParticipant" =>
        (lastEvent.requested <=>
            \/ lastEvent.prevOrder = "none"
            \/ (lastEvent.prevOrder = "0") # (lastEvent.order = "0"))

\* An update changed one non-zero order into another and requested nothing.
C9_Witness ==
    /\ lastEvent.type = "updateGroupCallParticipant"
    /\ lastEvent.prevOrder = "1"
    /\ lastEvent.order = "2"
    /\ ~lastEvent.requested

\* The users a description lists.
DescribedUsers(description) ==
    {description.ssrcs[i].userId : i \in 1..Len(description.ssrcs)}

\* The users of a call whose order is not "0".
ActiveUsers(groupCallId) ==
    {participants[groupCallId][i].user_id :
        i \in {k \in 1..Len(participants[groupCallId]) :
                  participants[groupCallId][k].order # "0"}}

\* Nothing is pending for an eligible current session: no join, no
\* negotiation, no run, no timer, no deferred call.
Quiescent ==
    /\ currentGroupCall # 0
    /\ sessions[currentGroupCall].handleUpdateGroupCallParticipants
    /\ \A j \in JoinIds : joins[j].pc = "idle"
    /\ \A n \in NegIds : negs[n].pc = "idle"
    /\ \A r \in RunIds : runs[r].pc = "idle"
    /\ throttleTimer = -1
    /\ savedArgs = 0

\* C10: once the updates have been handled and nothing is pending, the last
\* description applied to the transport lists exactly the local user and
\* the participants of the call whose order is not "0".
C10_DescriptionFollowsRoster ==
    Quiescent =>
        DescribedUsers(conns[sessions[currentGroupCall].connection].remote)
            = {MyId} \cup ActiveUsers(sessions[currentGroupCall].groupCallId)

\* C11: is_speaking true is reported for a source only when its candidate
\* state has been speaking without interruption for the SPEAKING_MS before.
C11_SpeakingConfirmedContinuously ==
    (/\ lastEvent.type = "isSpeaking"
     /\ lastEvent.is_speaking
     /\ lastEvent.sent)
    => isSpeakingMap[lastEvent.session][lastEvent.source].sinceFlip >= SPEAKING_MS

\* C12: a period in which the candidate state of a source does not change
\* produces at most one report.
C12_OneReportPerPeriod ==
    \A s \in SessionIds, x \in SpeakSources : isSpeakingMap[s][x].reports <= 1

\* C13: a speaking timer sends its report only for the session that is
\* current, never for one that was hung up since the timer was set.
C13_NoReportAfterHangUp ==
    (lastEvent.type = "isSpeaking" /\ lastEvent.sent)
    => currentGroupCall = lastEvent.session

\* C14: when the connection of the current session reports "failed" or
\* "closed", no session is current afterwards, the connection is closed,
\* the input tracks are stopped, and the request sent is leaveGroupCall or
\* joinGroupCall with a null payload.
C14_FailedHangsUpLocally ==
    (/\ lastEvent.type = "ice"
     /\ lastEvent.state \in {"failed", "closed"}
     /\ lastEvent.current)
    => /\ currentGroupCall = 0
       /\ Closed(conns, lastEvent.connection)
       /\ ~sms[sessions[lastEvent.session].streamManager].inputLive
       /\ lastRequest.type \in {"leaveGroupCall", "joinGroupCallNull"}

\* The connection of a session whose call is cached as joined has failed.
C14_Witness ==
    /\ lastEvent.type = "ice"
    /\ lastEvent.state = "failed"
    /\ lastEvent.current
    /\ lastRequest.type = "leaveGroupCall"

\* C15: a "connected" event of the current session's connection plays the
\* joined cue exactly when it is the first "connected" event of that
\* connection.
C15_JoinedCueOncePerConnection ==
    (/\ lastEvent.type = "ice"
     /\ lastEvent.state = "connected"
     /\ lastEvent.current)
    => (lastEvent.played <=> lastEvent.first)

\* C16: a state change of a connection leaves a ringback cue that belongs to
\* another connection playing.
C16_CueStoppedByItsConnectionOnly ==
    [][(/\ lastEvent'.type = "ice"
        /\ connectionAudio # 0
        /\ connectionAudio # lastEvent'.connection)
       => connectionAudio' = connectionAudio]_vars

\* C17: no ringback cue is playing while the connection of the current
\* session is connected.
C17_NoCueWhileConnected ==
    (/\ currentGroupCall # 0
     /\ conns[sessions[currentGroupCall].connection].ice = "connected")
    => nCues = 0

\* C18: the step in which rejoinGroupCall rejoins keeps the session object
\* and its StreamManager, closes the old connection and installs a new one,
\* leaves updatingSdp and handleUpdateGroupCallParticipants false, shows no
\* alert and sets no ringback timer; and the join request of a rejoin
\* stores the source of the new connection's offer as meSignSource and sets
\* no ringback timer either.
C18_RejoinKeepsSession ==
    [][/\ (/\ lastHangUp'.type = "hangUp"
           /\ lastHangUp'.rejoin)
          => (/\ currentGroupCall' = currentGroupCall
              /\ sessions'[currentGroupCall].streamManager
                    = sessions[currentGroupCall].streamManager
              /\ sms' = sms
              /\ Closed(conns', sessions[currentGroupCall].connection)
              /\ sessions'[currentGroupCall].connection = nConns + 1
              /\ ~Closed(conns', sessions'[currentGroupCall].connection)
              /\ conns'[sessions'[currentGroupCall].connection].rejoin
              /\ ~sessions'[currentGroupCall].updatingSdp
              /\ ~sessions'[currentGroupCall].handleUpdateGroupCallParticipants
              /\ lastEvent'.type # "alert"
              /\ soundTimers' = soundTimers
              /\ lastRequest' = NoRequest)
       /\ (lastEvent'.type = "joinGroupCall" /\ lastEvent'.rejoin)
          => (/\ soundTimers' = soundTimers
              /\ sessions'[lastEvent'.session].meSignSource
                    \in {toTelegramSource(parseSdp(lastEvent'.offer1).source),
                         toTelegramSource(parseSdp(lastEvent'.offer2).source)})]_vars

\* A rejoin's join request was sent for a session whose renegotiation run
\* was in progress when the rejoin replaced the connection.
C18_Witness ==
    /\ lastEvent.type = "joinGroupCall"
    /\ lastEvent.rejoin
    /\ lastEvent.connection = 2
    /\ \E r \in RunIds : runs[r].pc # "idle" /\ runs[r].connection = 1

\* C19: a hangUp that found its session and is not a rejoin has sent one
\* request for its call: discardGroupCall when discard was asked for,
\* otherwise leaveGroupCall when the cached group call has is_joined,
\* otherwise joinGroupCall with a null payload; and it has cleared the
\* current session. A hangUp with rejoin has sent no request and has kept
\* the current session and left its StreamManager's input as it was.
C19_HangUpRequest ==
    LET h == lastHangUp
        joined == items[h.groupCallId].known /\ items[h.groupCallId].is_joined
    IN  h.type = "hangUp" =>
          IF h.rejoin
          THEN /\ lastRequest = NoRequest
               /\ currentGroupCall = h.session
               /\ sessions[h.session].groupCallId = h.groupCallId
               /\ sms[sessions[h.session].streamManager].inputLive = h.inputLive
          ELSE /\ currentGroupCall = 0
               /\ lastRequest.group_call_id = h.groupCallId
               /\ lastRequest.type =
                    IF h.discard THEN "discardGroupCall"
                    ELSE IF joined THEN "leaveGroupCall"
                    ELSE "joinGroupCallNull"

\* A hangUp without discard has abandoned a session whose call is cached as
\* not joined.
C19_Witness ==
    /\ lastHangUp.type = "hangUp"
    /\ ~lastHangUp.rejoin
    /\ ~lastHangUp.discard
    /\ items[lastHangUp.groupCallId].known
    /\ ~items[lastHangUp.groupCallId].is_joined
    /\ lastRequest.type = "joinGroupCallNull"

\* C20: the handling of updateGroupCallParticipant never turns an input
\* track from disabled to enabled; it leaves the current session's live
\* input track disabled when the update is for the local user, carries a
\* mute flag and is for the current session's call, and leaves every track
\* as it was otherwise. A step that enables the input track of an existing
\* StreamManager is a changeMuted or a changeUserMuted with muted false.
C20_ServerNeverUnmutes ==
    [][LET e == lastEvent'
           cgc == currentGroupCall
           forced == /\ e.user_id = MyId
                     /\ e.muted
                     /\ cgc # 0
                     /\ e.group_call_id = sessions[cgc].groupCallId
       IN  /\ e.type = "updateGroupCallParticipant" =>
                /\ \A m \in 1..nSms : sms'[m].enabled => sms[m].enabled
                /\ \A m \in 1..nSms :
                     IF /\ forced
                        /\ m = sessions[cgc].streamManager
                        /\ sms[m].inputLive
                     THEN ~sms'[m].enabled
                     ELSE sms'[m].enabled = sms[m].enabled
           /\ (\E m \in 1..nSms : ~sms[m].enabled /\ sms'[m].enabled) =>
                /\ e.type \in {"changeMuted", "changeUserMuted"}
                /\ ~e.muted]_vars

\* A server push with a mute flag for the local user has disabled the
\* enabled input track of the current session.
C20_Witness ==
    /\ lastEvent.type = "updateGroupCallParticipant"
    /\ lastEvent.user_id = MyId
    /\ lastEvent.muted
    /\ ~lastEvent.wasMuted
    /\ currentGroupCall # 0
    /\ lastEvent.group_call_id = sessions[currentGroupCall].groupCallId
    /\ sms[sessions[currentGroupCall].streamManager].inputLive
    /\ ~sms[sessions[currentGroupCall].streamManager].enabled

\* C21: a renegotiation run starts only for a session that is marked
\* eligible and on a connection to which the initial answer was applied,
\* and a remote offer is applied only to a connection whose remote
\* description is the initial answer or an earlier offer; so after a rejoin
\* no run touches the new connection before the rejoin's own answer.
C21_NoOfferBeforeAnswer ==
    [][/\ \A r \in RunIds :
            (runs[r].pc = "idle" /\ runs'[r].pc # "idle")
            => (/\ sessions[runs'[r].session].handleUpdateGroupCallParticipants
                   \/ lastEvent'.type = "answer"
                /\ runs'[r].connection = sessions'[runs'[r].session].connection
                /\ conns'[runs'[r].connection].remote.type # "none")
       /\ \A c \in ConnIds :
            (conns'[c].remote.type = "offer" /\ conns[c].remote.type # "offer")
            => conns[c].remote.type = "answer"]_vars

\* After a rejoin a run has applied its offer to the second connection.
C21_Witness ==
    \E r \in RunIds :
        /\ runs[r].pc = "createAnswer"
        /\ runs[r].connection = 2
        /\ conns[2].rejoin
        /\ conns[2].remote.type = "offer"

\* C22: the step in which startNegotiation applies the initial answer and
\* marks its session eligible leaves a renegotiation run started for that
\* session and connection, over the active roster of the call, whenever
\* the call has a roster.
C22_PassStartsImmediately ==
    (/\ lastEvent.type = "answer"
     /\ ~lastEvent.superseded
     /\ participants[sessions[lastEvent.session].groupCallId] # << >>)
    => \E r \in RunIds :
          /\ runs[r].pc = "setRemoteDescription"
          /\ runs[r].session = lastEvent.session
          /\ runs[r].connection = lastEvent.connection
          /\ runs[r].ssrcs = Ssrcs(Cur, sessions[lastEvent.session].groupCallId,
                                   sessions[lastEvent.session].meSignSource)

\* The records of a call whose order is not "0".
ActiveRecords(groupCallId) ==
    SelectSeq(participants[groupCallId], LAMBDA x : x.order # "0")

\* C23: the source list handed to the initial answer has one entry, the
\* local user with the session's self-source; the source list a
\* renegotiation run starts with names every participant of the call whose
\* order is not "0" once, each with its own source, and the local user
\* exactly once: in its place among the active records, or first and with
\* the session's self-source when no active record of it exists.
C23_SourceLists ==
    [][/\ \A n \in NegIds :
            (negs[n].pc # "setRemoteDescription" /\ negs'[n].pc = "setRemoteDescription")
            => (/\ Len(negs'[n].sdp) = 1
                /\ negs'[n].sdp[1].userId = MyId
                /\ negs'[n].sdp[1].ssrc
                      = fromTelegramSource(sessions[negs[n].session].meSignSource))
       /\ \A r \in RunIds :
            (runs[r].pc = "idle" /\ runs'[r].pc # "idle")
            => LET ssrcs == runs'[r].ssrcs
                   g == runs'[r].groupCallId
                   active == SelectSeq(participants'[g], LAMBDA x : x.order # "0")
                   hasMe == \E i \in 1..Len(active) : active[i].user_id = MyId
                   k == IF hasMe THEN 0 ELSE 1
               IN  /\ Len(ssrcs) = Len(active) + k
                   /\ Cardinality({i \in 1..Len(ssrcs) : ssrcs[i].userId = MyId}) = 1
                   /\ \A i \in 1..Len(active) :
                        /\ ssrcs[i + k].userId = active[i].user_id
                        /\ ssrcs[i + k].ssrc = fromTelegramSource(active[i].source)
                   /\ ~hasMe =>
                        /\ ssrcs[1].userId = MyId
                        /\ ssrcs[1].ssrc
                              = fromTelegramSource(sessions'[runs'[r].session].meSignSource)]_vars

\* A run has started with the local user synthesized in front of user 2
\* while the registry holds an inactive record of the local user.
C23_Witness ==
    \E r \in RunIds :
        /\ runs[r].pc = "setRemoteDescription"
        /\ Len(runs[r].ssrcs) = 2
        /\ runs[r].ssrcs[1].userId = MyId
        /\ runs[r].ssrcs[2].userId = 2
        /\ \E i \in 1..Len(participants[1]) :
              participants[1][i].user_id = MyId /\ participants[1][i].order = "0"
        /\ Len(ActiveRecords(1)) = 1

\* C24: the step in which a joinGroupCall learns that its capture failed
\* shows the permission alert and ends that join; it leaves the current
\* session, every session object, every connection and every StreamManager
\* as they were, creates none, starts no negotiation and sends no request.
C24_FailedCaptureLeavesNothing ==
    [][(/\ lastEvent'.type = "alert"
        /\ lastEvent'.text = "VoipNeedMicPermission")
       => (/\ currentGroupCall' = currentGroupCall
           /\ sessions' = sessions /\ nSessions' = nSessions
           /\ conns' = conns /\ nConns' = nConns
           /\ sms' = sms /\ nSms' = nSms
           /\ negs' = negs
           /\ lastRequest' = NoRequest
           /\ \E j \in JoinIds :
                 /\ joins[j].pc = "getStream"
                 /\ joins' = [joins EXCEPT ![j] = NoJoin])]_vars

\* The capture of a second join has failed while a session is current.
C24_Witness ==
    /\ lastEvent.type = "alert"
    /\ lastEvent.text = "VoipNeedMicPermission"
    /\ currentGroupCall # 0
    /\ \A j \in JoinIds : joins[j].pc = "idle"

\* C25: the step in which the joinGroupCall request of a startNegotiation
\* comes back failed or empty ends that startNegotiation, leaves its
\* connection closed and the tracks of its StreamManager stopped, applies
\* no description and sends no request; and a session is marked eligible
\* only in a step that applies the initial answer to its open connection,
\* so never through the connection of a failed join.
C25_FailedJoinStops ==
    [][/\ \A n \in NegIds :
            (/\ negs[n].pc = "joinGroupCall"
             /\ lastEvent'.type = "joinGroupCallResult"
             /\ ~lastEvent'.result
             /\ negs'[n].pc # "joinGroupCall")
            => (/\ negs'[n] = NoNeg
                /\ Closed(conns', negs[n].connection)
                /\ ~sms'[negs[n].streamManager].inputLive
                /\ \A c \in ConnIds : conns'[c].remote.type = "none" \/ conns'[c].remote = conns[c].remote
                /\ \A s \in SessionIds :
                      sessions'[s].handleUpdateGroupCallParticipants
                        = sessions[s].handleUpdateGroupCallParticipants
                /\ lastRequest' = NoRequest)
       /\ \A s \in SessionIds :
            (/\ ~sessions[s].handleUpdateGroupCallParticipants
             /\ sessions'[s].handleUpdateGroupCallParticipants)
            => (/\ ~Closed(conns, sessions[s].connection)
                /\ conns'[sessions[s].connection].remote.type = "answer"
                /\ lastEvent'.type = "answer")]_vars

\* The join request of the current session's connection has failed: the
\* connection, open until then, is closed.
C25_Witness ==
    /\ lastEvent.type = "joinGroupCallResult"
    /\ ~lastEvent.result
    /\ ~lastEvent.wasClosed
    /\ ~lastEvent.superseded
    /\ Closed(conns, lastEvent.connection)
    /\ ~sms[lastEvent.streamManager].inputLive

\* C26: every speaking report carries as its source what the handler
\* computed for the sample: the translation of the sampled source for a
\* sample of type 'input', the session's self-source for one of type
\* 'output' (taken once the session has one).
C26_ReportCarriesTelegramSource ==
    (/\ lastEvent.type = "isSpeaking"
     /\ lastEvent.sent
     /\ lastEvent.telegramSource # 0)
    => lastRequest.source = lastEvent.telegramSource

\* A startNegotiation is between its first createOffer and the return of
\* its join request.
InOfferJoinCycle(n) ==
    negs[n].pc \in {"createOffer1", "setLocalDescription1", "createOffer2",
                    "setLocalDescription2", "joinGroupCall"}

\* The connection of the current session, 0 when there is none.
CurrentConnection ==
    IF currentGroupCall = 0 THEN 0 ELSE sessions[currentGroupCall].connection

\* C27: on the current session's connection at most one startNegotiation is
\* in flight at a time, and while one is in its offer/join cycle no
\* renegotiation run applies a remote offer or a local answer to that
\* connection.
C27_NegotiationsSerialized ==
    [][/\ \A n1 \in NegIds, n2 \in NegIds :
            (/\ negs'[n1].pc # "idle"
             /\ negs'[n2].pc # "idle"
             /\ negs'[n1].connection = negs'[n2].connection
             /\ negs'[n1].connection = CurrentConnection')
            => n1 = n2
       /\ \A r \in RunIds, n \in NegIds :
            (/\ InOfferJoinCycle(n)
             /\ negs[n].connection = CurrentConnection
             /\ runs[r].connection = negs[n].connection
             /\ lastEvent'.type = "run"
             /\ lastEvent'.ok)
            => ~ \/ runs[r].pc = "setRemoteDescription" /\ runs'[r].pc = "createAnswer"
                 \/ runs[r].pc = "setLocalDescription" /\ runs'[r].pc = "idle"]_vars

\* C28: whenever a session is current and no joinGroupCall and no
\* startNegotiation is in progress, the session's connection is not closed
\* and its input tracks are live.
C28_CurrentSessionIsLive ==
    (/\ currentGroupCall # 0
     /\ \A j \in JoinIds : joins[j].pc = "idle"
     /\ \A n \in NegIds : negs[n].pc = "idle")
    => /\ ~Closed(conns, sessions[currentGroupCall].connection)
       /\ sms[sessions[currentGroupCall].streamManager].inputLive

\* C29: a "failed" or "closed" event of a connection that is not the
\* current session's connection leaves the current session installed, its
\* connection open and its input tracks live.
C29_StaleFailureSparesSession ==
    (/\ lastEvent.type = "ice"
     /\ lastEvent.state \in {"failed", "closed"}
     /\ ~lastEvent.current
     /\ lastEvent.session # 0)
    => /\ currentGroupCall = lastEvent.session
       /\ lastHangUp = NoHangUp

\* C30: once the handler of authorizationStateLoggingOut has finished, no
\* session is current, and the connection of the session that was current
\* when the update arrived is closed and the tracks of its StreamManager
\* are stopped.
C30_LogoutTearsDown ==
    (lastEvent.type = "loggedOut" /\ lastEvent.session # 0)
    => /\ currentGroupCall = 0
       /\ Closed(conns, lastEvent.connection)
       /\ ~sms[lastEvent.streamManager].inputLive

\* C31: at most one ringback cue is playing, and a cue that is playing is
\* the one this.connectionAudio refers to.
C31_OneCueReferenced ==
    /\ nCues <= 1
    /\ nCues = 1 => connectionAudio # 0

\* C32: the reports sent for a source strictly alternate and start with
\* is_speaking true: a report carries true exactly when the report before
\* it for the source, if any, carried false.
C32_ReportsAlternate ==
    (/\ lastEvent.type = "isSpeaking"
     /\ lastEvent.sent)
    => lastEvent.is_speaking = (lastEvent.previous # "true")

\* C33: an updateGroupCall replaces the cache entry of its call.  For the
\* current session's call it rejoins when need_rejoin is set (the session
\* stays current on a new connection, the old one is closed, nothing is
\* sent), and otherwise hangs up exactly when the cached is_joined was true
\* and the new one is false, sending joinGroupCall with a null payload.  For
\* any other call id, or with no session, the session, the connections and
\* the streams stay as they were and nothing is sent.
C33_UpdateGroupCallEffect ==
    [][lastEvent'.type = "updateGroupCall" =>
        LET e == lastEvent'
            cgc == currentGroupCall
            current == cgc # 0 /\ sessions[cgc].groupCallId = e.id
            leaves == items[e.id].known /\ items[e.id].is_joined /\ ~e.is_joined
        IN  /\ items' = [items EXCEPT ![e.id] = [known |-> TRUE, is_joined |-> e.is_joined]]
            /\ IF current /\ e.need_rejoin
               THEN /\ lastHangUp'.type = "hangUp" /\ lastHangUp'.rejoin
                    /\ currentGroupCall' = cgc
                    /\ sessions'[cgc].connection # sessions[cgc].connection
                    /\ conns'[sessions[cgc].connection] = ClosedConn
                    /\ sessions'[cgc].streamManager = sessions[cgc].streamManager
                    /\ sms' = sms
                    /\ lastRequest' = NoRequest
               ELSE IF current /\ leaves
               THEN /\ lastHangUp'.type = "hangUp"
                    /\ lastHangUp'.session = cgc
                    /\ ~lastHangUp'.rejoin /\ ~lastHangUp'.discard
                    /\ currentGroupCall' = 0
                    /\ lastRequest' = [NoRequest EXCEPT !.type = "joinGroupCallNull",
                                                       !.group_call_id = e.id]
               ELSE /\ lastHangUp' = NoHangUp
                    /\ lastRequest' = NoRequest
                    /\ UNCHANGED << currentGroupCall, sessions, conns, sms >>
      ]_vars

\* The server has reported that the user is no longer joined to the call of
\* the current session, and the session was hung up.
C33_Witness ==
    /\ lastEvent.type = "updateGroupCall"
    /\ ~lastEvent.need_rejoin
    /\ lastHangUp.type = "hangUp"
    /\ lastRequest.type = "joinGroupCallNull"

\* C34: hangUp called with no session, or for a call that is not the
\* current session's, changes nothing and sends nothing.
C34_HangUpOtherCallIsNoOp ==
    [][(/\ lastEvent'.type = "hangUp"
        /\ \/ currentGroupCall = 0
           \/ sessions[currentGroupCall].groupCallId # lastEvent'.groupCallId)
       => /\ UNCHANGED << currentGroupCall, sessions, conns, sms, items,
                          participants, connectionAudio, nCues, soundTimers >>
          /\ lastRequest' = NoRequest
          /\ lastHangUp' = NoHangUp
      ]_vars

\* hangUp was called for a call other than the current session's.
C34_Witness ==
    /\ lastEvent.type = "hangUp"
    /\ currentGroupCall # 0
    /\ sessions[currentGroupCall].groupCallId # lastEvent.groupCallId
    /\ conns[sessions[currentGroupCall].connection] # ClosedConn

\* C35: a startGroupCall that found a session current sends createVoiceChat
\* only from its alert callback after the user confirmed, and only once
\* that session is hung up and the request of its hang-up is answered; when
\* the user declines, nothing is sent and the session, the connections and
\* the streams stay as they were.
C35_CreateAfterConfirmedHangUp ==
    [][/\ (lastRequest'.type = "createVoiceChat" /\ lastEvent'.session # 0)
          => /\ lastEvent'.type \in {"startAlertResult", "startHangUpReturned"}
             /\ lastEvent'.result
             /\ currentGroupCall' # lastEvent'.session
             /\ lastEvent'.session \notin pendingHangUps'
       /\ (lastEvent'.type = "startAlertResult" /\ ~lastEvent'.result)
          => /\ lastRequest' = NoRequest
             /\ UNCHANGED << currentGroupCall, sessions, conns, sms >>
      ]_vars

====
